---- MODULE Spec2Model ----
(***************************************************************************)
(* Verification model of the disruption-aware routing core of              *)
(* FMEA_SupplyChain: the dynamic route registry (mitigation_module/         *)
(* dynamic_network), the GDELT live risk service (gdelt_service.py) and the *)
(* guardian / legacy solvers (mitigation_solver.py), with the impact report, *)
(* the rule-based route selection, the static risk monitor                 *)
(* (risk_monitor.py), disruption extraction and the rupee formatting of    *)
(* check_city_risks.py.                                                    *)
(*                                                                         *)
(* One module, one specification per entry point or group of them:         *)
(*   SpecReg     concurrent callers of get_routes_for_city                  *)
(*   SpecSeq     one caller of GDELTService (time, cache, retries)          *)
(*   SpecConc    two concurrent callers of one GDELTService                 *)
(*   SpecSolver  _resolve_risk_data, solve_guardian_plan,                   *)
(*               solve_mitigation_plan over enumerated inputs, followed by  *)
(*               the caller's generate_impact_report                        *)
(*   SpecReport  generate_impact_report on plans of any origin              *)
(*   SpecSelect  rule_based_route_selection                                 *)
(*   SpecThemes  GDELTService._compute_multiplier                           *)
(*   SpecRisk    GDELTService.get_city_risk over the fetch and cache steps  *)
(*   SpecScan    risk_monitor.scan_news_for_risk                            *)
(*   SpecResolve two risk resolutions in a row, with and without a shared   *)
(*               GDELTService                                               *)
(*   SpecDataset the solvers over the states of the cost dataset file       *)
(*   SpecText    DisruptionExtractor.extract_from_text and                  *)
(*               CityRiskChecker.format_cost_inr                            *)
(*   SpecMix     fetch_latest_gkg and get_disruptions_from_gdelt calls      *)
(*               mixed on one GDELTService                                  *)
(***************************************************************************)
EXTENDS Integers, Sequences, FiniteSets, TLC

VARIABLES
    \* ---- route registry (dynamic_network) ----
    routeMap,        \* route id -> <<source, destination>> or <<source, hub, destination>>
    cityRoutes,      \* city -> sequence of route ids serving it (<<>>: not created)
    nextDirectId,    \* next free direct route id
    nextMultihopId,  \* next free multi-hop route id
    lockHolder,      \* caller holding the registry lock, 0 when free
    rpc,             \* caller -> position in get_routes_for_city
    rcity,           \* caller -> city of the call in progress
    returned,        \* city -> log of the route-id sequences returned so far (history)
    callsMade,       \* number of get_routes_for_city calls started (history)
    \* ---- GDELTService (gdelt_service.py) ----
    max_retries,         \* constructor argument
    cache_ttl_seconds,   \* constructor argument
    now,                 \* datetime.now(UTC), in ticks
    last_fetch_time,     \* self.last_fetch_time, -1 for None
    cached_gkg_df,       \* self._cached_gkg_df: index into Feed, 0 for None
    cached_disruptions,  \* self._cached_disruptions: <<>> for None, <<list>> otherwise
    cache_expires_at,    \* self._cache_expires_at, -1 for None
    gpc,                 \* caller -> position in get_disruptions_from_gdelt
    gcall,               \* caller -> the call in progress or last made (arguments, locals, log)
    gresult,             \* caller -> outcome of the caller's last completed call
    lastRefresh,         \* list returned by the latest call that refreshed (history)
    gcallsMade,          \* number of service calls started (history)
    gcallLimit,          \* number of service calls the run makes
    gcallers,            \* the callers of the run
    \* ---- solvers (mitigation_solver.py) ----
    smode,               \* "guardian" (solve_guardian_plan) or "legacy" (solve_mitigation_plan)
    spc,                 \* position in the solver
    requirements,        \* extract_shipment_requirements(user_input_text)
    city_routes,         \* get_routes_for_city(destination)
    primary_route,       \* get_primary_route_for_city(destination)
    route_cost,          \* route id -> get_route_cost(route_id, df)
    cost_dataset,        \* Dataset_AI_Supply_Optimization.csv: "missing", "unparsable"
                         \* (pd.read_csv raises) or "no_columns" (read, columns absent)
    use_live_gdelt,      \* argument of solve_guardian_plan
    env_live,            \* _is_env_enabled("USE_GDELT_LIVE_RISK")
    gdelt_service,       \* argument: "none" for None, "shared" for the caller's one service
    live_outcome,        \* what service.get_city_risk(destination) does
    static_outcome,      \* what scan_news_for_risk(destination) returns
    risk_data,           \* <<>> for None, <<signal>> otherwise
    risk_raised,         \* an exception left _resolve_risk_data
    alert_json_list,     \* argument of solve_mitigation_plan
    base_cost_map,
    current_cost_map,
    demand_qty,
    best_normal,
    best_risky,
    initial_plan,
    mitigation_plan,
    risk_info_str,       \* third element of solve_guardian_plan's return value
    collab_calls,        \* collaborators solve_guardian_plan has called so far (history)
    \* ---- generate_impact_report ----
    full_route_map,      \* get_full_route_map(): <<id, route tuple>> in insertion order
    filter_destination,  \* argument, "" for None
    report_data,         \* <<>> before the call, <<rows>> after
    \* ---- rule_based_route_selection ----
    route_options,       \* argument: the candidate routes
    quantity,            \* argument
    budget,              \* argument, 0 for None
    selection,           \* <<>> before the call, <<result>> after
    \* ---- GDELTService._compute_multiplier / get_city_risk ----
    theme_tags,          \* the tags whose joined text is the argument theme_text
    theme_multiplier,    \* 0 before the call, the returned multiplier after
    city_risk,           \* caller -> the get_city_risk call in progress or last made
    \* ---- scan_news_for_risk (risk_monitor.py) ----
    news_file,           \* News_Category_Dataset_v3.json: missing, unreadable or its rows
    target_city,         \* argument
    scan_result,         \* outcome of the scan_news_for_risk call
    \* ---- DisruptionExtractor.extract_from_text ----
    alert_text,          \* argument
    alert_events,        \* outcome of the extract_from_text call
    \* ---- CityRiskChecker.format_cost_inr (check_city_risks.py) ----
    cost_usd,            \* argument, whole dollars
    usd_to_inr,          \* argument
    formatted            \* <<>> before the call, <<text>> after

regVars == <<routeMap, cityRoutes, nextDirectId, nextMultihopId, lockHolder,
             rpc, rcity, returned, callsMade>>

gdVars == <<max_retries, cache_ttl_seconds, now, last_fetch_time, cached_gkg_df,
            cached_disruptions, cache_expires_at, gpc, gcall, gresult, lastRefresh,
            gcallsMade, gcallLimit, gcallers>>

solInputs == <<smode, requirements, city_routes, primary_route, route_cost, cost_dataset,
               use_live_gdelt, env_live, gdelt_service, live_outcome, static_outcome,
               alert_json_list>>
solVars == <<solInputs,
            <<spc, risk_data, risk_raised, base_cost_map, current_cost_map,
                 demand_qty, best_normal, best_risky, initial_plan, mitigation_plan,
                 risk_info_str, collab_calls>>>>

repVars == <<full_route_map, filter_destination, report_data>>
selVars == <<route_options, quantity, budget, selection>>
themeVars == <<theme_tags, theme_multiplier>>
scanVars == <<news_file, target_city, scan_result>>
textVars == <<alert_text, alert_events, cost_usd, usd_to_inr, formatted>>
fnVars == <<repVars, selVars, themeVars, city_risk, scanVars, textVars>>

vars == <<regVars, gdVars, solVars, fnVars>>

(***************************************************************************)
(* Bounds of the model.                                                    *)
(***************************************************************************)
NumCities == 2
NumCallers == 3
NumWarehouses == 2
NumHubs == 2
MaxRegistryCalls == 4

Cities == 1 .. NumCities
Callers == 1 .. NumCallers

\* get_warehouse_list / get_hub_list of network_config: the configured names.
get_warehouse_list == [i \in 1 .. NumWarehouses |-> i]
get_hub_list == [i \in 1 .. NumHubs |-> i]

\* Predefined (legacy) route ids of the static cost table occupy 1 .. 8.
PREDEFINED_ROUTE_COUNT == 8
\* First id of the multi-hop namespace.
MULTIHOP_ROUTE_START_ID == 1000

SeqToSet(s) == {s[i] : i \in 1 .. Len(s)}
NoDuplicates(s) == \A i, j \in 1 .. Len(s) : s[i] = s[j] => i = j

(***************************************************************************)
(* Route registry                                                          *)
(***************************************************************************)
\* The registry-wide lock guarding the check-then-create sequence.
LockAlwaysFree(t) == TRUE
LockFree(t) == lockHolder = 0

\* Ids handed to a batch of n new routes starting at `first`, and the counter after.
AllocKeepsCounter(first, n) == first
AllocNext(first, n) == first + n

DirectIds(first) == [i \in 1 .. NumWarehouses |-> first + i - 1]
MultihopIds(first) == [i \in 1 .. NumWarehouses * NumHubs |-> first + i - 1]

\* get_routes_for_city, entry: take the lock and check whether the city exists.
RegEnter(t, c) ==
    /\ rpc[t] = "idle"
    /\ callsMade < MaxRegistryCalls
    /\ LockFree(t)
    /\ lockHolder' = t
    /\ rcity' = [rcity EXCEPT ![t] = c]
    /\ rpc' = [rpc EXCEPT ![t] = IF cityRoutes[c] = <<>> THEN "direct" ELSE "ret"]
    /\ callsMade' = callsMade + 1
    /\ UNCHANGED <<routeMap, cityRoutes, nextDirectId, nextMultihopId, returned>>
    /\ UNCHANGED <<gdVars, solVars, fnVars>>

\* create_direct_routes: one direct route per warehouse.
CreateDirect(t) ==
    /\ rpc[t] = "direct"
    /\ LET c == rcity[t]
           ids == DirectIds(nextDirectId)
       IN /\ routeMap' = [r \in DOMAIN routeMap \cup SeqToSet(ids) |->
                            IF r \in SeqToSet(ids)
                            THEN <<get_warehouse_list[r - nextDirectId + 1], c>>
                            ELSE routeMap[r]]
          /\ cityRoutes' = [cityRoutes EXCEPT ![c] = @ \o ids]
          /\ nextDirectId' = AllocNext(nextDirectId, NumWarehouses)
    /\ rpc' = [rpc EXCEPT ![t] = "multihop"]
    /\ UNCHANGED <<nextMultihopId, lockHolder, rcity, returned, callsMade>>
    /\ UNCHANGED <<gdVars, solVars, fnVars>>

\* create_multihop_routes: one route per (warehouse, hub) pair.
CreateMultihop(t) ==
    /\ rpc[t] = "multihop"
    /\ LET c == rcity[t]
           ids == MultihopIds(nextMultihopId)
           k(r) == r - nextMultihopId
       IN /\ routeMap' = [r \in DOMAIN routeMap \cup SeqToSet(ids) |->
                            IF r \in SeqToSet(ids)
                            THEN <<get_warehouse_list[(k(r) \div NumHubs) + 1],
                                   get_hub_list[(k(r) % NumHubs) + 1], c>>
                            ELSE routeMap[r]]
          /\ cityRoutes' = [cityRoutes EXCEPT ![c] = @ \o ids]
          /\ nextMultihopId' = AllocNext(nextMultihopId, NumWarehouses * NumHubs)
    /\ rpc' = [rpc EXCEPT ![t] = "ret"]
    /\ UNCHANGED <<nextDirectId, lockHolder, rcity, returned, callsMade>>
    /\ UNCHANGED <<gdVars, solVars, fnVars>>

\* get_routes_for_city, exit: copy the city's list, release the lock, return.
RegReturn(t) ==
    /\ rpc[t] = "ret"
    /\ returned' = [returned EXCEPT ![rcity[t]] = Append(@, cityRoutes[rcity[t]])]
    /\ lockHolder' = IF lockHolder = t THEN 0 ELSE lockHolder
    /\ rpc' = [rpc EXCEPT ![t] = "idle"]
    /\ UNCHANGED <<routeMap, cityRoutes, nextDirectId, nextMultihopId, rcity, callsMade>>
    /\ UNCHANGED <<gdVars, solVars, fnVars>>

RegIdle ==
    /\ routeMap = << >>
    /\ cityRoutes = [c \in Cities |-> <<>>]
    /\ nextDirectId = PREDEFINED_ROUTE_COUNT + 1
    /\ nextMultihopId = MULTIHOP_ROUTE_START_ID
    /\ lockHolder = 0
    /\ rpc = [t \in Callers |-> "idle"]
    /\ rcity = [t \in Callers |-> 1]
    /\ returned = [c \in Cities |-> <<>>]
    /\ callsMade = 0

(***************************************************************************)
(* GDELT live risk service                                                 *)
(***************************************************************************)
\* Text is a sequence of one-character strings, so that substring tests and case
\* folding are computed rather than assumed.
LowerAlphabet == <<"a","b","c","d","e","f","g","h","i","j","k","l","m",
                   "n","o","p","q","r","s","t","u","v","w","x","y","z">>
UpperAlphabet == <<"A","B","C","D","E","F","G","H","I","J","K","L","M",
                   "N","O","P","Q","R","S","T","U","V","W","X","Y","Z">>
StrUpper(txt) ==
    [i \in 1 .. Len(txt) |->
        IF \E k \in 1 .. Len(LowerAlphabet) : LowerAlphabet[k] = txt[i]
        THEN UpperAlphabet[CHOOSE k \in 1 .. Len(LowerAlphabet) : LowerAlphabet[k] = txt[i]]
        ELSE txt[i]]
StrLower(txt) ==
    [i \in 1 .. Len(txt) |->
        IF \E k \in 1 .. Len(UpperAlphabet) : UpperAlphabet[k] = txt[i]
        THEN LowerAlphabet[CHOOSE k \in 1 .. Len(UpperAlphabet) : UpperAlphabet[k] = txt[i]]
        ELSE txt[i]]
\* Python's `sub in txt`.
StrContains(txt, sub) ==
    \E k \in 0 .. Len(txt) - Len(sub) :
        \A i \in 1 .. Len(sub) : txt[k + i] = sub[i]

ENV_FLOOD == <<"E","N","V","_","F","L","O","O","D">>
STRIKE == <<"S","T","R","I","K","E">>
NATURAL_DISASTER == <<"N","A","T","U","R","A","L","_","D","I","S","A","S","T","E","R">>
TRANSPORTATION == <<"T","R","A","N","S","P","O","R","T","A","T","I","O","N">>
ENV_STORM == <<"E","N","V","_","S","T","O","R","M">>
PORT == <<"P","O","R","T">>
SHIPPING == <<"S","H","I","P","P","I","N","G">>
LOGISTICS == <<"L","O","G","I","S","T","I","C","S">>

TARGET_THEMES == <<ENV_FLOOD, STRIKE, NATURAL_DISASTER, TRANSPORTATION,
                   ENV_STORM, PORT, SHIPPING, LOGISTICS>>

\* Theme texts and location names occurring in the modelled feed.
TxtSports == <<"S","P","O","R","T","S">>
TxtStrikeLower == <<"s","t","r","i","k","e">>
TxtEconomy == <<"E","C","O","N">>
Mumbai == <<"M","u","m","b","a","i">>
Boston == <<"B","o","s","t","o","n">>
Chicago == <<"C","h","i","c","a","g","o">>

\* A GKG row: theme text, V2Locations (entries already split at ';', each entry
\* split at '#'), document identifier and date.
Row(themes, locs, doc, date) ==
    [V2Themes |-> themes, V2Locations |-> locs, DocumentIdentifier |-> doc, DATE |-> date]

\* The snapshots the manifest may name, oldest first (the first is the archive of
\* tests/test_gdelt_integration.py).
Feed ==
    << << Row(TRANSPORTATION \o <<",">> \o PORT,
              << <<"1", Mumbai, "IN">>, <<"1", <<"N","a","v","i"," ">> \o Mumbai, "IN">> >>,
              "article-1", 1),
          Row(TxtSports, << <<"1", Boston, "US">> >>, "article-2", 2) >>,
       << Row(TxtStrikeLower, << <<"1", Chicago, "US">>, <<"4">>, <<"1", Mumbai, "IN">> >>,
              "article-3", 3),
          Row(TxtEconomy, << <<"1", Boston, "US">> >>, "article-4", 4),
          Row(ENV_FLOOD, << <<"1", Mumbai, "IN">> >>, "article-5", 5) >> >>

Snapshots == 1 .. Len(Feed)

\* _extract_locations: the second '#'-field of every entry that has one.
_extract_locations(locs) ==
    LET keep(e) == Len(e) >= 2 /\ e[2] # <<>>
        F[i \in 0 .. Len(locs)] ==
            IF i = 0 THEN <<>>
            ELSE IF keep(locs[i]) THEN Append(F[i - 1], locs[i][2]) ELSE F[i - 1]
    IN F[Len(locs)]

ComputeMultiplierTransportFirst(theme_text) ==
    LET up == StrUpper(theme_text)
    IN IF \E tok \in {TRANSPORTATION, PORT, SHIPPING, LOGISTICS} : StrContains(up, tok) THEN 10
       ELSE IF \E tok \in {NATURAL_DISASTER, ENV_FLOOD, ENV_STORM} : StrContains(up, tok) THEN 20
       ELSE IF StrContains(up, STRIKE) THEN 5
       ELSE 2
_compute_multiplier(theme_text) ==
    LET up == StrUpper(theme_text)
    IN IF \E tok \in {NATURAL_DISASTER, ENV_FLOOD, ENV_STORM} : StrContains(up, tok) THEN 20
       ELSE IF \E tok \in {TRANSPORTATION, PORT, SHIPPING, LOGISTICS} : StrContains(up, tok) THEN 10
       ELSE IF StrContains(up, STRIKE) THEN 5
       ELSE 2

\* filter_disruption_themes: one disruption per row whose theme text holds a target token.
filter_disruption_themes(gkg_df) ==
    LET F[i \in 0 .. Len(gkg_df)] ==
            IF i = 0 THEN <<>>
            ELSE LET theme_text == gkg_df[i].V2Themes
                     upper_theme == StrUpper(theme_text)
                     \* [token for token in target_tokens if token in upper_theme]
                     matched == SelectSeq(TARGET_THEMES,
                                          LAMBDA token : StrContains(upper_theme, token))
                 IN IF theme_text = <<>> \/ matched = <<>> THEN F[i - 1]
                    ELSE Append(F[i - 1],
                           [themes |-> matched,
                            raw_themes |-> theme_text,
                            locations |-> _extract_locations(gkg_df[i].V2Locations),
                            multiplier |-> _compute_multiplier(upper_theme),
                            reason |-> matched[1],
                            source |-> <<"g","d","e","l","t">>,
                            article_url |-> gkg_df[i].DocumentIdentifier,
                            event_time |-> gkg_df[i].DATE])
    IN F[Len(gkg_df)]

\* self.filter_disruption_themes(gkg_df) for each frame the feed can deliver.
FeedDisruptions == [s \in Snapshots |-> filter_disruption_themes(Feed[s])]

\* Bounds of the service model.
MaxRetries == 2
CacheTtl == 2
MaxTime == 3
MaxGdCalls == 3

GdThreads == 1 .. 2
\* What one failed GET attempt raises (session.get or raise_for_status).
HttpErrors == {"timeout", "http"}

IsCacheValidInclusive == cache_expires_at # -1 /\ now <= cache_expires_at
_is_cache_valid == cache_expires_at # -1 /\ now < cache_expires_at

\* attempts = max(self.max_retries, 1)
RetryAttemptsPlusOne == (IF max_retries > 1 THEN max_retries ELSE 1) + 1
RetryAttempts == IF max_retries > 1 THEN max_retries ELSE 1

\* last_error = exc

NoResult == [kind |-> "none", val |-> <<>>, cause |-> "", stage |-> ""]
Returned(list) == [kind |-> "ret", val |-> list, cause |-> "", stage |-> ""]
ServeStaleOnError(stage, cause) ==
    [kind |-> "ret", val |-> IF cached_disruptions = <<>> THEN <<>> ELSE cached_disruptions[1],
     cause |-> cause, stage |-> stage]
Raised(stage, cause) == [kind |-> "raise", val |-> <<>>, cause |-> cause, stage |-> stage]

NewCall(force) ==
    [force |-> force, direct |-> FALSE, callNow |-> now, callExp |-> cache_expires_at,
     callFetch |-> last_fetch_time, callDf |-> cached_gkg_df, callDis |-> cached_disruptions,
     df |-> 0, url |-> 0, attempt |-> 0, last_error |-> "",
     logM |-> <<>>, logZ |-> <<>>]

\* get_disruptions_from_gdelt, line 227: the cache test.
GdEnterStep(t, force) ==
    /\ t \in gcallers
    /\ gpc[t] = "idle"
    /\ gcallsMade < gcallLimit
    /\ gcallsMade' = gcallsMade + 1
    /\ gcall' = [gcall EXCEPT ![t] = NewCall(force)]
    /\ gresult' = [gresult EXCEPT ![t] = NoResult]
    /\ gpc' = [gpc EXCEPT ![t] =
                 IF ~force /\ _is_cache_valid /\ cached_disruptions # <<>>
                 THEN "gd_hit" ELSE "fl_enter"]
    /\ UNCHANGED <<max_retries, cache_ttl_seconds, now, last_fetch_time, cached_gkg_df,
                   cached_disruptions, cache_expires_at, lastRefresh, gcallLimit, gcallers>>

\* A caller invokes get_disruptions_from_gdelt(force_refresh=force).
GdEnter(t, force) ==
    /\ GdEnterStep(t, force)
    /\ UNCHANGED <<regVars, solVars, fnVars>>

\* line 228: return list(self._cached_disruptions)
GdHit(t) ==
    /\ gpc[t] = "gd_hit"
    /\ gresult' = [gresult EXCEPT ![t] = Returned(cached_disruptions[1])]
    /\ gpc' = [gpc EXCEPT ![t] = "idle"]
    /\ UNCHANGED <<max_retries, cache_ttl_seconds, now, last_fetch_time, cached_gkg_df,
                   cached_disruptions, cache_expires_at, gcall, lastRefresh,
                   gcallsMade, gcallLimit, gcallers>>
    /\ UNCHANGED <<regVars, solVars, fnVars>>

\* A caller invokes fetch_latest_gkg(force_refresh=force) itself (lines 131-169); its
\* result is the frame.
FetchEnter(t, force) ==
    /\ t \in gcallers
    /\ gpc[t] = "idle"
    /\ gcallsMade < gcallLimit
    /\ gcallsMade' = gcallsMade + 1
    /\ gcall' = [gcall EXCEPT ![t] = [NewCall(force) EXCEPT !.direct = TRUE]]
    /\ gresult' = [gresult EXCEPT ![t] = NoResult]
    /\ gpc' = [gpc EXCEPT ![t] = "fl_enter"]
    /\ UNCHANGED <<max_retries, cache_ttl_seconds, now, last_fetch_time, cached_gkg_df,
                   cached_disruptions, cache_expires_at, lastRefresh, gcallLimit, gcallers>>
    /\ UNCHANGED <<regVars, solVars, fnVars>>

\* fetch_latest_gkg, lines 144-145: serve the cached frame, or start the manifest request.
\* The frame returns to get_disruptions_from_gdelt (line 231) or to the direct caller.
FlEnter(t) ==
    /\ gpc[t] = "fl_enter"
    /\ IF ~gcall[t].force /\ _is_cache_valid /\ cached_gkg_df # 0
       THEN /\ gcall' = [gcall EXCEPT ![t].df = cached_gkg_df]
            /\ gpc' = [gpc EXCEPT ![t] = IF gcall[t].direct THEN "idle" ELSE "filter"]
            /\ gresult' = IF gcall[t].direct
                          THEN [gresult EXCEPT ![t] = Returned(Feed[cached_gkg_df])]
                          ELSE gresult
       ELSE /\ gcall' = [gcall EXCEPT ![t].attempt = 1, ![t].last_error = ""]
            /\ gpc' = [gpc EXCEPT ![t] = "manifest"]
            /\ UNCHANGED gresult
    /\ UNCHANGED <<max_retries, cache_ttl_seconds, now, last_fetch_time, cached_gkg_df,
                   cached_disruptions, cache_expires_at, lastRefresh,
                   gcallsMade, gcallLimit, gcallers>>
    /\ UNCHANGED <<regVars, solVars, fnVars>>

\* _http_get_with_retry, lines 120-129: one attempt that raises.
HttpFail(t, exc) ==
    /\ gpc[t] \in {"manifest", "zip"}
    /\ LET c == gcall[t]
           err == exc
           logged == IF gpc[t] = "manifest"
                     THEN [c EXCEPT !.logM = Append(@, exc), !.last_error = err]
                     ELSE [c EXCEPT !.logZ = Append(@, exc), !.last_error = err]
       IN IF c.attempt >= RetryAttempts
          THEN /\ gcall' = [gcall EXCEPT ![t] = logged]
               /\ gresult' = [gresult EXCEPT ![t] = Raised(gpc[t], err)]
               /\ gpc' = [gpc EXCEPT ![t] = "idle"]
          ELSE /\ gcall' = [gcall EXCEPT ![t] = [logged EXCEPT !.attempt = @ + 1]]
               /\ gpc' = [gpc EXCEPT ![t] = gpc[t]]
               /\ UNCHANGED gresult
    /\ UNCHANGED <<max_retries, cache_ttl_seconds, now, last_fetch_time, cached_gkg_df,
                   cached_disruptions, cache_expires_at, lastRefresh,
                   gcallsMade, gcallLimit, gcallers>>
    /\ UNCHANGED <<regVars, solVars, fnVars>>

\* lines 147-150: the manifest request succeeds; u = 0 when the manifest names no GKG zip.
HttpOkManifest(t, u) ==
    /\ gpc[t] = "manifest"
    /\ IF u = 0
       THEN /\ gcall' = [gcall EXCEPT ![t].logM = Append(@, "ok")]
            /\ gresult' = [gresult EXCEPT ![t] = Raised("nourl", "")]
            /\ gpc' = [gpc EXCEPT ![t] = "idle"]
       ELSE /\ gcall' = [gcall EXCEPT ![t].logM = Append(@, "ok"), ![t].url = u,
                                      ![t].attempt = 1, ![t].last_error = ""]
            /\ gpc' = [gpc EXCEPT ![t] = "zip"]
            /\ UNCHANGED gresult
    /\ UNCHANGED <<max_retries, cache_ttl_seconds, now, last_fetch_time, cached_gkg_df,
                   cached_disruptions, cache_expires_at, lastRefresh,
                   gcallsMade, gcallLimit, gcallers>>
    /\ UNCHANGED <<regVars, solVars, fnVars>>

\* lines 152-164: the archive request succeeds; an archive without members raises.
HttpOkZip(t, empty) ==
    /\ gpc[t] = "zip"
    /\ IF empty
       THEN /\ gcall' = [gcall EXCEPT ![t].logZ = Append(@, "ok")]
            /\ gresult' = [gresult EXCEPT ![t] = Raised("empty", "")]
            /\ gpc' = [gpc EXCEPT ![t] = "idle"]
       ELSE /\ gcall' = [gcall EXCEPT ![t].logZ = Append(@, "ok"), ![t].df = gcall[t].url]
            /\ gpc' = [gpc EXCEPT ![t] = "store_df"]
            /\ UNCHANGED gresult
    /\ UNCHANGED <<max_retries, cache_ttl_seconds, now, last_fetch_time, cached_gkg_df,
                   cached_disruptions, cache_expires_at, lastRefresh,
                   gcallsMade, gcallLimit, gcallers>>
    /\ UNCHANGED <<regVars, solVars, fnVars>>

\* lines 166-167: last_fetch_time (read by nothing in the service) and the cached frame.
StoreDf(t) ==
    /\ gpc[t] = "store_df"
    /\ last_fetch_time' = now
    /\ cached_gkg_df' = gcall[t].df
    /\ gpc' = [gpc EXCEPT ![t] = "fl_expiry"]
    /\ UNCHANGED <<max_retries, cache_ttl_seconds, now, cached_disruptions,
                   cache_expires_at, gcall, gresult, lastRefresh,
                   gcallsMade, gcallLimit, gcallers>>
    /\ UNCHANGED <<regVars, solVars, fnVars>>

\* lines 168-169: self._set_cache_expiry(); return gkg_df
FlSetExpiry(t) ==
    /\ gpc[t] = "fl_expiry"
    /\ cache_expires_at' = now + cache_ttl_seconds
    /\ gpc' = [gpc EXCEPT ![t] = IF gcall[t].direct THEN "idle" ELSE "filter"]
    /\ gresult' = IF gcall[t].direct
                  THEN [gresult EXCEPT ![t] = Returned(Feed[gcall[t].df])]
                  ELSE gresult
    /\ UNCHANGED <<max_retries, cache_ttl_seconds, now, last_fetch_time, cached_gkg_df,
                   cached_disruptions, gcall, lastRefresh,
                   gcallsMade, gcallLimit, gcallers>>
    /\ UNCHANGED <<regVars, solVars, fnVars>>

\* lines 231-233: filter the frame this call holds and cache the list.
StoreDisruptions(t) ==
    /\ gpc[t] = "filter"
    /\ cached_disruptions' = << FeedDisruptions[gcall[t].df] >>
    /\ gpc' = [gpc EXCEPT ![t] = "gd_expiry"]
    /\ UNCHANGED <<max_retries, cache_ttl_seconds, now, last_fetch_time, cached_gkg_df,
                   cache_expires_at, gcall, gresult, lastRefresh,
                   gcallsMade, gcallLimit, gcallers>>
    /\ UNCHANGED <<regVars, solVars, fnVars>>

\* lines 234-235: renew the expiry and return the list.
GdSetExpiry(t) ==
    /\ gpc[t] = "gd_expiry"
    /\ cache_expires_at' = now + cache_ttl_seconds
    /\ gresult' = [gresult EXCEPT ![t] = Returned(FeedDisruptions[gcall[t].df])]
    /\ lastRefresh' = FeedDisruptions[gcall[t].df]
    /\ gpc' = [gpc EXCEPT ![t] = "idle"]
    /\ UNCHANGED <<max_retries, cache_ttl_seconds, now, last_fetch_time, cached_gkg_df,
                   cached_disruptions, gcall, gcallsMade, gcallLimit, gcallers>>
    /\ UNCHANGED <<regVars, solVars, fnVars>>

\* The wall clock advances.
Tick ==
    /\ now < MaxTime
    /\ now' = now + 1
    /\ UNCHANGED <<max_retries, cache_ttl_seconds, last_fetch_time, cached_gkg_df,
                   cached_disruptions, cache_expires_at, gpc, gcall, gresult, lastRefresh,
                   gcallsMade, gcallLimit, gcallers>>
    /\ UNCHANGED <<regVars, solVars, fnVars>>

\* GDELTService.__init__, lines 49-58.
GdConstructed(retries, callers, limit) ==
    /\ max_retries = retries
    /\ cache_ttl_seconds = CacheTtl
    /\ now = 0
    /\ last_fetch_time = -1
    /\ cached_gkg_df = 0
    /\ cached_disruptions = <<>>
    /\ cache_expires_at = -1
    /\ gpc = [t \in GdThreads |-> "idle"]
    /\ gcall = [t \in GdThreads |-> NewCall(FALSE)]
    /\ gresult = [t \in GdThreads |-> NoResult]
    /\ lastRefresh = <<>>
    /\ gcallsMade = 0
    /\ gcallLimit = limit
    /\ gcallers = callers

GdIdle == GdConstructed(2, {}, 0)

\* The steps inside a get_disruptions_from_gdelt call, and the clock.
NextGdSteps ==
    \/ \E t \in GdThreads : GdHit(t)
    \/ \E t \in GdThreads : FlEnter(t)
    \/ \E t \in GdThreads, exc \in HttpErrors : HttpFail(t, exc)
    \/ \E t \in GdThreads, u \in {0} \cup Snapshots : HttpOkManifest(t, u)
    \/ \E t \in GdThreads, empty \in BOOLEAN : HttpOkZip(t, empty)
    \/ \E t \in GdThreads : StoreDf(t)
    \/ \E t \in GdThreads : FlSetExpiry(t)
    \/ \E t \in GdThreads : StoreDisruptions(t)
    \/ \E t \in GdThreads : GdSetExpiry(t)
    \/ Tick

NextGd ==
    \/ \E t \in GdThreads, force \in BOOLEAN : GdEnter(t, force)
    \/ NextGdSteps

(***************************************************************************)
(* Solvers                                                                 *)
(***************************************************************************)
\* Bounds of the solver inputs.
MaxDirectRoutes == 2
MaxMultihopRoutes == 1
MaxAlerts == 2

\* Unit costs a route may have, in cents (distance x cost per km of CSV_DATA_BACKUP
\* rows 1 and 4, and a multi-hop cost above both).
CostValues == {31550, 31850, 37860}

\* CSV_DATA_BACKUP: route id, distance in hundredths of a km, cost per km.
CSV_DATA_BACKUP ==
    << [id |-> 1, dist |-> 15775, rate |-> 2], [id |-> 2, dist |-> 15962, rate |-> 2],
       [id |-> 3, dist |-> 15727, rate |-> 2], [id |-> 4, dist |-> 15925, rate |-> 2],
       [id |-> 5, dist |-> 15988, rate |-> 2], [id |-> 6, dist |-> 15961, rate |-> 2],
       [id |-> 7, dist |-> 15900, rate |-> 2], [id |-> 8, dist |-> 15800, rate |-> 2] >>

\* Unit_Cost = Route Distance x Cost per Kilometer, per Route (ID).
LegacyBaseCostMap ==
    [r \in {CSV_DATA_BACKUP[i].id : i \in 1 .. Len(CSV_DATA_BACKUP)} |->
        LET row == CSV_DATA_BACKUP[CHOOSE i \in 1 .. Len(CSV_DATA_BACKUP) :
                                       CSV_DATA_BACKUP[i].id = r]
        IN row.dist * row.rate]

\* get_city_demand: the default quantity of a city.
get_city_demand(destination) == IF destination = "Boston" THEN 150 ELSE 100

LiveSignal(city, m) ==
    [city |-> city, multiplier |-> m, reason |-> "PORT signal from GDELT", source |-> <<"g","d","e","l","t">>]
StaticSignal(city, m) ==
    [city |-> city, multiplier |-> m, reason |-> "reported in city"]

\* dict.setdefault(key, value) on a copy of d.
SetDefault(d, key, value) ==
    IF key \in DOMAIN d THEN d
    ELSE [k \in DOMAIN d \cup {key} |-> IF k = key THEN value ELSE d[k]]

\* _resolve_risk_data, lines 42-57. live is [kind, risk] with kind "none", "raises"
\* or "signal"; static is <<>> or <<signal>>. The result is [raised, value].
ResolveRiskNoCatch(use_live, env, live, static) ==
    IF (use_live \/ env) /\ live.kind = "raises"
    THEN [raised |-> TRUE, value |-> <<>>]
    ELSE IF (use_live \/ env) /\ live.kind = "signal"
    THEN [raised |-> FALSE, value |-> <<live.risk>>]
    ELSE [raised |-> FALSE,
          value |-> IF static = <<>> THEN <<>>
                    ELSE <<SetDefault(static[1], "source", <<"s","t","a","t","i","c">>)>>]
ResolveRiskUntagged(use_live, env, live, static) ==
    IF (use_live \/ env) /\ live.kind = "signal"
    THEN [raised |-> FALSE, value |-> <<live.risk>>]
    ELSE [raised |-> FALSE, value |-> static]
_resolve_risk_data(use_live, env, live, static) ==
    LET enable_live == use_live \/ env
        fallback_risk == IF static = <<>> THEN <<>>
                         ELSE <<SetDefault(static[1], "source", <<"s","t","a","t","i","c">>)>>
    IN IF enable_live /\ live.kind = "signal"
       THEN [raised |-> FALSE, value |-> <<live.risk>>]
       ELSE [raised |-> FALSE, value |-> fallback_risk]

\* current_cost_map.get(r, 99999), in cents.
CostOr(cost_map, r) == IF r \in DOMAIN cost_map THEN cost_map[r] ELSE 9999900

\* Python's min(seq, key=...): the first element of least key.
MaxByCost(routes, cost_map) ==
    routes[CHOOSE i \in 1 .. Len(routes) :
              /\ \A j \in 1 .. Len(routes) : CostOr(cost_map, routes[j]) <= CostOr(cost_map, routes[i])
              /\ \A j \in 1 .. i - 1 : CostOr(cost_map, routes[j]) < CostOr(cost_map, routes[i])]
MinByCost(routes, cost_map) ==
    routes[CHOOSE i \in 1 .. Len(routes) :
              /\ \A j \in 1 .. Len(routes) : CostOr(cost_map, routes[j]) >= CostOr(cost_map, routes[i])
              /\ \A j \in 1 .. i - 1 : CostOr(cost_map, routes[j]) > CostOr(cost_map, routes[i])]

\* solve_guardian_plan, lines 119-133: the multiplier goes to the primary route only.
ApplyRiskToPrimary(base, risk, primary) ==
    IF risk # <<>> /\ primary # 0
    THEN [base EXCEPT ![primary] = @ * risk[1].multiplier]
    ELSE base

\* line 162: Plan A always uses the primary route.
BestNormalCheapest(routes, base, primary) == MinByCost(routes, base)
BestNormal(routes, base, primary) == primary

\* lines 185-187: the whole quantity to the chosen route, zero to the others.
PlanKeepsChosenOnly(routes, chosen, qty) == [r \in {chosen} |-> qty]
PlanFor(routes, chosen, qty) ==
    [r \in SeqToSet(routes) |-> IF r = chosen THEN qty ELSE 0]

\* Line 75: `if not destination`.
DestinationNeverMissing(req) == FALSE
DestinationMissing(req) == req.destination = ""

\* Lines 75-76: return None, None, "Unknown Destination", None, requirements.
ReturnUnknown ==
    /\ smode = "guardian" /\ spc = "start"
    /\ DestinationMissing(requirements)
    /\ risk_info_str' = <<"Unknown Destination">>
    /\ spc' = "unknown"
    /\ UNCHANGED <<risk_data, risk_raised, base_cost_map, current_cost_map, demand_qty,
                   best_normal, best_risky, initial_plan, mitigation_plan, collab_calls>>
    /\ UNCHANGED <<solInputs, regVars, gdVars, fnVars>>

\* solve_guardian_plan, lines 94-99: resolve the destination's risk. collab_calls
\* gains the collaborators one _resolve_risk_data call reaches (lines 44-53): the live
\* service when enabled, the static monitor unless the live signal was returned.
ResolveRisk ==
    /\ smode = "guardian" /\ spc = "start"
    /\ ~DestinationMissing(requirements)
    /\ LET res == _resolve_risk_data(use_live_gdelt, env_live, live_outcome, static_outcome)
       IN /\ risk_raised' = res.raised
          /\ risk_data' = res.value
          /\ spc' = IF res.raised THEN "failed" ELSE "resolved"
    /\ collab_calls' =
          collab_calls \o <<"_resolve_risk_data">>
          \o (IF use_live_gdelt \/ env_live THEN <<"get_city_risk">> ELSE <<>>)
          \o (IF (use_live_gdelt \/ env_live) /\ live_outcome.kind = "signal" THEN <<>>
              ELSE <<"scan_news_for_risk">>)
    /\ UNCHANGED <<base_cost_map, current_cost_map, demand_qty, best_normal, best_risky,
                   initial_plan, mitigation_plan, risk_info_str>>
    /\ UNCHANGED <<solInputs, regVars, gdVars, fnVars>>

\* lines 101-133: the dataset, the city's routes, their base costs, the risk-adjusted
\* costs. Lines 104-106 read the dataset when the file exists, outside any try: a file
\* pd.read_csv cannot parse ends the call with its exception.
ApplyRisk ==
    /\ smode = "guardian" /\ spc = "resolved"
    /\ IF cost_dataset = "unparsable"
       THEN /\ spc' = "raised"
            /\ UNCHANGED <<base_cost_map, current_cost_map, risk_info_str, collab_calls>>
       ELSE /\ base_cost_map' = [r \in SeqToSet(city_routes) |-> route_cost[r]]
            /\ current_cost_map' =
                  ApplyRiskToPrimary(base_cost_map', risk_data, primary_route)
            \* Lines 120-126: the parts of the alert sentence, the source upper-cased.
            /\ risk_info_str' =
                  IF risk_data # <<>>
                  THEN <<"ALERT", risk_data[1].reason, risk_data[1].multiplier,
                         StrUpper(IF "source" \in DOMAIN risk_data[1]
                                  THEN risk_data[1].source
                                  ELSE <<"r","i","s","k"," ","m","o","n","i","t","o","r">>)>>
                  ELSE <<"No Risks Detected">>
            /\ collab_calls' = Append(collab_calls, "get_routes_for_city")
            /\ spc' = "costed"
    /\ UNCHANGED <<risk_data, risk_raised, demand_qty, best_normal, best_risky,
                   initial_plan, mitigation_plan>>
    /\ UNCHANGED <<solInputs, regVars, gdVars, fnVars>>

\* lines 147-191: the quantity, the two selections, the two plans.
Optimize ==
    /\ smode = "guardian" /\ spc = "costed"
    /\ demand_qty' = IF requirements.quantity # 0 THEN requirements.quantity
                     ELSE get_city_demand(requirements.destination)
    /\ best_normal' = BestNormal(city_routes, base_cost_map, primary_route)
    /\ best_risky' = MinByCost(city_routes, current_cost_map)
    /\ initial_plan' = PlanFor(city_routes, best_normal', demand_qty')
    /\ mitigation_plan' = PlanFor(city_routes, best_risky', demand_qty')
    /\ spc' = "done"
    /\ UNCHANGED <<risk_data, risk_raised, base_cost_map, current_cost_map,
                   risk_info_str, collab_calls>>
    /\ UNCHANGED <<solInputs, regVars, gdVars, fnVars>>

\* target_ids of one alert: a bare id is wrapped into a list (line 220).
TargetIds(alert) ==
    IF alert.target_route_id.kind = "list" THEN alert.target_route_id.ids
    ELSE <<alert.target_route_id.id>>

\* Lines 223-226 for one alert: multiply each listed id present in the map, in order.
ApplyAlertToAllRoutes(cost_map, alert) ==
    [r \in DOMAIN cost_map |-> cost_map[r] * alert.cost_multiplier]
ApplyAlert(cost_map, alert) ==
    LET ids == TargetIds(alert)
        F[i \in 0 .. Len(ids)] ==
            IF i = 0 THEN cost_map
            ELSE IF ids[i] \in DOMAIN F[i - 1]
                 THEN [F[i - 1] EXCEPT ![ids[i]] = @ * alert.cost_multiplier]
                 ELSE F[i - 1]
    IN F[Len(ids)]

\* Lines 217-227: every alert in turn.
ApplyAlerts(cost_map, alerts) ==
    LET F[i \in 0 .. Len(alerts)] ==
            IF i = 0 THEN cost_map ELSE ApplyAlert(F[i - 1], alerts[i])
    IN F[Len(alerts)]

\* solve_mitigation_plan, lines 200-227: base costs, then the alerts' multipliers.
SolveMitigationCosts ==
    /\ smode = "legacy" /\ spc = "start"
    \* Lines 207-212 group by the dataset's columns outside the try of lines 201-204:
    \* a table read without them ends the call with KeyError.
    /\ IF cost_dataset = "no_columns"
       THEN /\ spc' = "raised"
            /\ UNCHANGED <<base_cost_map, current_cost_map>>
       ELSE \* the file is missing or unreadable: CSV_DATA_BACKUP (lines 203-204)
            /\ base_cost_map' = LegacyBaseCostMap
            /\ current_cost_map' = ApplyAlerts(base_cost_map', alert_json_list)
            /\ spc' = "costed"
    /\ UNCHANGED <<risk_data, risk_raised, demand_qty, best_normal, best_risky,
                   initial_plan, mitigation_plan, risk_info_str, collab_calls>>
    /\ UNCHANGED <<solInputs, regVars, gdVars, fnVars>>

SolLocalsUnset ==
    /\ risk_data = <<>>
    /\ risk_raised = FALSE
    /\ base_cost_map = << >>
    /\ current_cost_map = << >>
    /\ demand_qty = 0
    /\ best_normal = 0
    /\ best_risky = 0
    /\ risk_info_str = <<>>
    /\ collab_calls = <<>>

SolOutputsUnset ==
    /\ spc = "start"
    /\ SolLocalsUnset
    /\ initial_plan = << >>
    /\ mitigation_plan = << >>

\* A shipment request to solve_guardian_plan and what its collaborators answer.
GuardianInputs ==
    /\ smode = "guardian"
    \* Route lists the registry can hand to the solver: Boston's predefined pair, or a
    \* dynamic city's direct routes followed by its multi-hop routes.
    /\ city_routes \in
          {<<1, 4>>} \cup
          {[i \in 1 .. d |-> PREDEFINED_ROUTE_COUNT + i] \o
           [i \in 1 .. h |-> MULTIHOP_ROUTE_START_ID + i - 1] :
              d \in 1 .. MaxDirectRoutes, h \in 0 .. MaxMultihopRoutes}
    /\ primary_route \in {r \in SeqToSet(city_routes) : r < MULTIHOP_ROUTE_START_ID}
    /\ city_routes = <<1, 4>> => primary_route = 1
    /\ route_cost \in [SeqToSet(city_routes) -> CostValues]
    /\ requirements \in {[destination |-> d, quantity |-> q] :
                            d \in {IF city_routes = <<1, 4>> THEN "Boston" ELSE "Seattle", ""}, q \in {0, 200}}
    \* the parser found no destination: one request, whatever the risk sources hold
    /\ requirements.destination = "" =>
          /\ city_routes = <<1, 4>>
          /\ route_cost = [r \in {1, 4} |-> LegacyBaseCostMap[r]]
          /\ requirements.quantity = 0
    /\ use_live_gdelt \in BOOLEAN
    /\ env_live \in BOOLEAN
    \* live_outcome stands for the answer of whichever service the call uses
    /\ gdelt_service = "none"
    /\ live_outcome \in
          {[kind |-> "none", risk |-> LiveSignal(requirements.destination, 1)],
           [kind |-> "raises", risk |-> LiveSignal(requirements.destination, 1)],
           [kind |-> "signal", risk |-> LiveSignal(requirements.destination, 10)]}
    /\ static_outcome \in {<<>>, <<StaticSignal(requirements.destination, 2)>>,
                            <<StaticSignal(requirements.destination, 20)>>}
    /\ alert_json_list = <<>>

GuardianIdle ==
    /\ city_routes = <<1, 4>>
    /\ primary_route = 1
    /\ route_cost = [r \in {1, 4} |-> LegacyBaseCostMap[r]]
    /\ requirements = [destination |-> "Boston", quantity |-> 0]
    /\ use_live_gdelt = FALSE
    /\ env_live = FALSE
    /\ live_outcome = [kind |-> "none", risk |-> LiveSignal("Boston", 1)]
    /\ static_outcome = <<>>

\* Alerts as callers build them: one id, a list of ids, ids the cost table lacks.
Alerts ==
    [target_route_id :
        {[kind |-> "int", id |-> 1, ids |-> <<>>], [kind |-> "int", id |-> 99, ids |-> <<>>],
         [kind |-> "list", id |-> 0, ids |-> <<1, 4>>],
         [kind |-> "list", id |-> 0, ids |-> <<2, 99>>],
         [kind |-> "list", id |-> 0, ids |-> <<>>]},
     cost_multiplier : {1, 10}]

\* A call of solve_mitigation_plan(alert_json_list).
LegacyInputs ==
    /\ smode = "legacy"
    /\ GuardianIdle /\ gdelt_service = "none"
    /\ alert_json_list \in UNION {[1 .. n -> Alerts] : n \in 0 .. MaxAlerts}

SolIdle ==
    /\ smode = "guardian"
    /\ GuardianIdle /\ gdelt_service = "none" /\ cost_dataset = "missing"
    /\ alert_json_list = <<>>
    /\ SolOutputsUnset

(***************************************************************************)
(* Impact report (generate_impact_report)                                  *)
(***************************************************************************)
\* Largest quantity of an enumerated plan.
MaxQty == 2

\* network_config.route_map: the eight predefined routes, a primary from
\* Warehouse_North and a backup for each of the four predefined destinations.
route_map ==
    << [id |-> 1, route |-> <<"Warehouse_North", "Boston">>],
       [id |-> 2, route |-> <<"Warehouse_North", "New York">>],
       [id |-> 3, route |-> <<"Warehouse_North", "Chicago">>],
       [id |-> 4, route |-> <<"Warehouse_South", "Boston">>],
       [id |-> 5, route |-> <<"Warehouse_North", "Philadelphia">>],
       [id |-> 6, route |-> <<"Warehouse_South", "Chicago">>],
       [id |-> 7, route |-> <<"Warehouse_South", "New York">>],
       [id |-> 8, route |-> <<"Warehouse_South", "Philadelphia">>] >>

\* The registry entry of a dynamic route: direct below the multi-hop namespace.
DynamicEntry(rid, dest) ==
    [id |-> rid,
     route |-> IF rid < MULTIHOP_ROUTE_START_ID THEN <<"Warehouse_North", dest>>
               ELSE <<"Warehouse_North", "Hub_Central", dest>>]

\* A registry grown by two cities, whose entries are neither grouped by destination
\* nor ascending by id within one destination.
GrownRouteMap ==
    route_map \o << DynamicEntry(1000, "Chicago"), DynamicEntry(9, "Seattle"),
                    DynamicEntry(1001, "Seattle"), DynamicEntry(10, "Chicago") >>

\* dst = route_tuple[-1]
RouteDestination(route) == route[Len(route)]

\* sorted(routes) for the distinct keys of a dict.
KeepOrder(ids) == ids
SortAsc(ids) ==
    [i \in 1 .. Len(ids) |->
        CHOOSE x \in SeqToSet(ids) : Cardinality({y \in SeqToSet(ids) : y < x}) = i - 1]

\* Lines 378-383: dest_groups, a dict in order of first insertion. DestOrder is its key
\* order, GroupOf(d) its list for key d.
DestOrder(frm) ==
    LET F[i \in 0 .. Len(frm)] ==
            IF i = 0 THEN <<>>
            ELSE LET seen == F[i - 1]
                 IN IF RouteDestination(frm[i].route) \in SeqToSet(seen) THEN seen
                    ELSE Append(seen, RouteDestination(frm[i].route))
    IN F[Len(frm)]
GroupOf(frm, d) ==
    LET F[i \in 0 .. Len(frm)] ==
            IF i = 0 THEN <<>>
            ELSE IF RouteDestination(frm[i].route) = d THEN Append(F[i - 1], frm[i].id)
                 ELSE F[i - 1]
    IN F[Len(frm)]

\* plan.get(rid, 0)
PlanGet(plan, rid) == IF rid \in DOMAIN plan THEN plan[rid] ELSE 0

\* Lines 408-423: the status of a route from its two quantities.
StatusWithoutAdjusted(old_qty, new_qty) ==
    IF old_qty > 0 /\ new_qty = 0 THEN "STOPPED"
    ELSE IF old_qty = 0 /\ new_qty > 0 THEN "ACTIVATED"
    ELSE IF old_qty = 0 /\ new_qty = 0 THEN "AVAILABLE"
    ELSE "UNCHANGED"
StatusAvailableFirst(old_qty, new_qty) ==
    IF new_qty = 0 THEN "AVAILABLE"
    ELSE IF old_qty = 0 /\ new_qty > 0 THEN "ACTIVATED"
    ELSE IF old_qty = new_qty /\ old_qty > 0 THEN "UNCHANGED"
    ELSE "ADJUSTED"
Status(old_qty, new_qty) ==
    IF old_qty > 0 /\ new_qty = 0 THEN "STOPPED"
    ELSE IF old_qty = 0 /\ new_qty > 0 THEN "ACTIVATED"
    ELSE IF old_qty = new_qty /\ old_qty > 0 THEN "UNCHANGED"
    ELSE IF old_qty = 0 /\ new_qty = 0 THEN "AVAILABLE"
    ELSE "ADJUSTED"

\* The route tuple registered under rid.
RouteOf(frm, rid) == frm[CHOOSE i \in 1 .. Len(frm) : frm[i].id = rid].route

\* Lines 385-434: a truthy filter keeps the one group whose key equals it (386-387);
\* for each kept destination, its routes in ascending id order, one row each (the
\* Cost/Unit column, read from the cost dataset, is left out; quantities are
\* integers, which int() leaves as they are).
generate_impact_report(initial, mitigation, filter, frm) ==
    LET dests == IF filter # "" THEN SelectSeq(DestOrder(frm), LAMBDA k : k = filter)
                 ELSE DestOrder(frm)
        row(rid) ==
            LET old_qty == PlanGet(initial, rid)
                new_qty == PlanGet(mitigation, rid)
                route_tuple == RouteOf(frm, rid)
            IN [route_id |-> rid,
                type |-> IF Len(route_tuple) = 2 THEN "Direct" ELSE "Multi-Hop",
                route_path |-> route_tuple,
                initial_qty |-> old_qty,
                final_qty |-> new_qty,
                status |-> Status(old_qty, new_qty)]
        rows(d) == LET ids == SortAsc(GroupOf(frm, d))
                   IN [i \in 1 .. Len(ids) |-> row(ids[i])]
        F[i \in 0 .. Len(dests)] ==
            IF i = 0 THEN <<>> ELSE F[i - 1] \o rows(dests[i])
    IN F[Len(dests)]

\* generate_impact_report(initial_plan, mitigation_plan, filter_destination).
GenerateImpactReport ==
    /\ spc = "done"
    /\ report_data = <<>>
    /\ report_data' = << generate_impact_report(initial_plan, mitigation_plan,
                                                filter_destination, full_route_map) >>
    /\ UNCHANGED <<full_route_map, filter_destination>>
    /\ UNCHANGED <<regVars, gdVars, solVars, selVars, themeVars, city_risk, scanVars, textVars>>

RepIdle ==
    /\ full_route_map = route_map
    /\ filter_destination = ""
    /\ report_data = <<>>

\* Plans a caller may pass: any quantities on any subset of a few ids, among them an
\* id the registry does not know.
Plans == UNION {[ids -> 0 .. MaxQty] : ids \in SUBSET {3, 1000, 77}}

\* network_config.DEMAND_REQ: the required quantity of each predefined destination.
DEMAND_REQ ==
    [d \in {"Boston", "New York", "Chicago", "Philadelphia"} |-> get_city_demand(d)]

\* Lines 237-253 for one destination: its options in route_map order, the two
\* winners, and the quantities the destination adds to both plans.
LegacyOptionsAnyDestination(dest) == [i \in 1 .. Len(route_map) |-> route_map[i].id]
LegacyOptions(dest) == GroupOf(route_map, dest)
LegacyPlanOf(cost_map) ==
    [r \in {route_map[i].id : i \in 1 .. Len(route_map)} |->
        LET dest == RouteDestination(RouteOf(route_map, r))
            req_qty == IF dest \in DOMAIN DEMAND_REQ THEN DEMAND_REQ[dest] ELSE 0
        IN IF r = MinByCost(LegacyOptions(dest), cost_map) THEN req_qty ELSE 0]

\* solve_mitigation_plan, lines 229-254: the cheapest route of every destination
\* at base cost and at current cost.
SolveMitigationOptimize ==
    /\ smode = "legacy" /\ spc = "costed"
    /\ initial_plan' = LegacyPlanOf(base_cost_map)
    /\ mitigation_plan' = LegacyPlanOf(current_cost_map)
    /\ spc' = "done"
    /\ UNCHANGED <<risk_data, risk_raised, base_cost_map, current_cost_map, demand_qty,
                   best_normal, best_risky, risk_info_str, collab_calls>>
    /\ UNCHANGED <<solInputs, regVars, gdVars, fnVars>>

NextSolver ==
    \/ ReturnUnknown
    \/ ResolveRisk
    \/ ApplyRisk
    \/ Optimize
    \/ SolveMitigationCosts
    \/ SolveMitigationOptimize
    \/ GenerateImpactReport

(***************************************************************************)
(* Route selection (select_routes_with_llm, rule_based_route_selection)    *)
(***************************************************************************)
\* Bounds of the selection inputs.
MaxOptions == 3

\* Lines 282-302: the option built for the i-th route of the city; amounts in cents.
RouteOption(i, cost, qty) ==
    [route_id |-> IF i <= 2 THEN 3 * i ELSE MULTIHOP_ROUTE_START_ID + i - 3,
     type |-> IF i <= 2 THEN "direct" ELSE "multi-hop",
     cost_per_unit |-> cost,
     total_cost_for_full_qty |-> cost * qty]

\* Lines 319-327: sorted(route_options, key=cost_per_unit), ascending and stable,
\* then the candidates after the budget filter and its fallback.
CandidatesOverBudget(options, b) ==
    LET rank(i) == Cardinality({j \in 1 .. Len(options) :
                        \/ options[j].cost_per_unit < options[i].cost_per_unit
                        \/ (options[j].cost_per_unit = options[i].cost_per_unit /\ j < i)}) + 1
        sorted_routes ==
            [k \in 1 .. Len(options) |-> options[CHOOSE i \in 1 .. Len(options) : rank(i) = k]]
        within == IF b # 0
                  THEN SelectSeq(sorted_routes, LAMBDA r : r.total_cost_for_full_qty >= b)
                  ELSE sorted_routes
    IN IF within = <<>> THEN sorted_routes ELSE within
Candidates(options, b) ==
    LET rank(i) == Cardinality({j \in 1 .. Len(options) :
                        \/ options[j].cost_per_unit < options[i].cost_per_unit
                        \/ (options[j].cost_per_unit = options[i].cost_per_unit /\ j < i)}) + 1
        sorted_routes ==
            [k \in 1 .. Len(options) |-> options[CHOOSE i \in 1 .. Len(options) : rank(i) = k]]
        within == IF b # 0
                  THEN SelectSeq(sorted_routes, LAMBDA r : r.total_cost_for_full_qty <= b)
                  ELSE sorted_routes
    IN IF within = <<>> THEN sorted_routes ELSE within

\* Lines 315-360. The analysis text is the sequence of its sentences.
rule_based_route_selection(options, qty, b) ==
    LET sorted_routes == Candidates(options, b)
        primary == sorted_routes[1]
    IN [selected_routes |->
            <<[route_id |-> primary.route_id, quantity |-> qty, role |-> "primary"]>>
            \o (IF Len(sorted_routes) > 1
                THEN <<[route_id |-> sorted_routes[2].route_id, quantity |-> 0,
                        role |-> "backup"]>>
                ELSE <<>>),
        total_cost |-> primary.total_cost_for_full_qty,
        analysis |->
            <<"Cost-optimized selection">>
            \o (IF b # 0 THEN <<"Within budget">> ELSE <<>>)
            \o (IF Len(sorted_routes) > 1 THEN <<"Available as backup">> ELSE <<>>)]

\* select_routes_with_llm, line 309.
RuleBasedRouteSelection ==
    /\ selection = <<>>
    /\ route_options # <<>>
    /\ selection' = << rule_based_route_selection(route_options, quantity, budget) >>
    /\ UNCHANGED <<route_options, quantity, budget>>
    /\ UNCHANGED <<regVars, gdVars, solVars, repVars, themeVars, city_risk, scanVars, textVars>>

SelIdle ==
    /\ route_options = <<>>
    /\ quantity = 0
    /\ budget = 0
    /\ selection = <<>>

(***************************************************************************)
(* GDELTService._compute_multiplier on its own                             *)
(***************************************************************************)
\* Longest tag list of an enumerated theme text.
MaxTags == 2

\* The V2Themes text of a record carrying the tags, joined as the feed joins them.
JoinTags(tags) ==
    LET F[i \in 0 .. Len(tags)] ==
            IF i = 0 THEN <<>>
            ELSE IF i = 1 THEN tags[1]
            ELSE F[i - 1] \o <<",">> \o tags[i]
    IN F[Len(tags)]

\* The tags of a V2Themes text: its non-empty pieces between ',' and ';'.
SplitTags(txt) ==
    LET F[i \in 0 .. Len(txt)] ==
            IF i = 0 THEN << <<>> >>
            ELSE LET pieces == F[i - 1]
                 IN IF txt[i] \in {",", ";"} THEN Append(pieces, <<>>)
                    ELSE [pieces EXCEPT ![Len(pieces)] = Append(@, txt[i])]
    IN SelectSeq(F[Len(txt)], LAMBDA tag : tag # <<>>)

\* self._compute_multiplier(theme_text) for the text of theme_tags.
ComputeMultiplier ==
    /\ theme_multiplier = 0
    /\ theme_multiplier' = _compute_multiplier(JoinTags(theme_tags))
    /\ UNCHANGED theme_tags
    /\ UNCHANGED <<regVars, gdVars, solVars, repVars, selVars, city_risk, scanVars, textVars>>

ThemeIdle ==
    /\ theme_tags = <<>>
    /\ theme_multiplier = 0

(***************************************************************************)
(* GDELTService.get_city_risk                                              *)
(***************************************************************************)
\* Number of get_city_risk calls of a run.
MaxRiskCalls == 2

\* City names a caller may ask about: none, differently cased names of feed
\* locations, and a city the feed does not mention.
TxtMumbaiLower == <<"m","u","m","b","a","i">>
TxtBostonUpper == <<"B","O","S","T","O","N">>

\* Line 256: max(matched_events, key=multiplier), the first event of greatest key.
TopEventFirstMatch(events) == events[1]
TopEvent(events) ==
    events[CHOOSE i \in 1 .. Len(events) :
              /\ \A j \in 1 .. Len(events) : events[j].multiplier <= events[i].multiplier
              /\ \A j \in 1 .. i - 1 : events[j].multiplier < events[i].multiplier]

\* Lines 244-264 on the list get_disruptions_from_gdelt returned: <<>> for None.
CityRiskOf(city_name, disruptions) ==
    LET \* Line 250: any(city_lower in str(location).lower() for location in locations)
        matches(event) ==
            \E i \in 1 .. Len(event.locations) :
                StrContains(StrLower(event.locations[i]), StrLower(city_name))
        matched_events == SelectSeq(disruptions, matches)
    IN IF matched_events = <<>> THEN <<>>
       ELSE LET top_event == TopEvent(matched_events)
            IN << [city |-> city_name,
                   multiplier |-> top_event.multiplier,
                   reason |-> top_event.reason,
                   source |-> <<"g","d","e","l","t">>,
                   themes |-> top_event.themes,
                   article_url |-> top_event.article_url] >>

\* get_city_risk, lines 241-244: return None for no city, otherwise ask for the
\* disruptions.
CityRiskEnter(t, city_name, force) ==
    /\ t \in gcallers
    /\ gpc[t] = "idle"
    /\ city_risk[t].stage # "fetching"
    /\ gcallsMade < gcallLimit
    \* Line 241: `if not city_name`.
    /\ IF city_name = <<>>
       THEN /\ city_risk' = [city_risk EXCEPT ![t] =
                               [city |-> city_name, stage |-> "done", result |-> Returned(<<>>)]]
            /\ gcallsMade' = gcallsMade + 1
            /\ gcall' = [gcall EXCEPT ![t] = NewCall(force)]
            /\ gresult' = [gresult EXCEPT ![t] = NoResult]
            /\ UNCHANGED <<max_retries, cache_ttl_seconds, now, last_fetch_time,
                           cached_gkg_df, cached_disruptions, cache_expires_at, gpc,
                           lastRefresh, gcallLimit, gcallers>>
       ELSE /\ GdEnterStep(t, force)
            /\ city_risk' = [city_risk EXCEPT ![t] =
                               [city |-> city_name, stage |-> "fetching", result |-> NoResult]]
    /\ UNCHANGED <<regVars, solVars, repVars, selVars, themeVars, scanVars, textVars>>

\* Lines 245-264: the disruptions came back (or the fetch raised, which get_city_risk
\* lets through).
CityRiskReturn(t) ==
    /\ city_risk[t].stage = "fetching"
    /\ gpc[t] = "idle"
    /\ gresult[t].kind # "none"
    /\ city_risk' = [city_risk EXCEPT ![t].stage = "done",
                                      ![t].result =
                                          IF gresult[t].kind = "raise" THEN gresult[t]
                                          ELSE Returned(CityRiskOf(city_risk[t].city,
                                                                   gresult[t].val))]
    /\ UNCHANGED <<regVars, gdVars, solVars, repVars, selVars, themeVars, scanVars, textVars>>

\* _resolve_risk_data(destination, use_live_gdelt=True, gdelt_service), lines 42-47,
\* for the t-th resolution of a run, made when the previous one has returned:
\* `gdelt_service or GDELTService()` is the caller's service or a newly constructed
\* one (lines 49-58: default arguments, nothing cached), and get_city_risk is called
\* on it.
ResolveRiskLive(t, city_name) ==
    /\ t \in gcallers /\ t = gcallsMade + 1
    /\ gcallsMade < gcallLimit
    /\ \A u \in GdThreads : gpc[u] = "idle" /\ city_risk[u].stage # "fetching"
    /\ IF gdelt_service = "shared"
       THEN CityRiskEnter(t, city_name, FALSE)
       ELSE /\ max_retries' = 2
            /\ cache_ttl_seconds' = CacheTtl
            /\ last_fetch_time' = -1
            /\ cached_gkg_df' = 0
            /\ cached_disruptions' = <<>>
            /\ cache_expires_at' = -1
            /\ gcallsMade' = gcallsMade + 1
            /\ gcall' = [gcall EXCEPT ![t] = [NewCall(FALSE) EXCEPT !.callExp = -1]]
            /\ gresult' = [gresult EXCEPT ![t] = NoResult]
            /\ gpc' = [gpc EXCEPT ![t] = "fl_enter"]
            /\ city_risk' = [city_risk EXCEPT ![t] =
                               [city |-> city_name, stage |-> "fetching", result |-> NoResult]]
            /\ UNCHANGED <<now, lastRefresh, gcallLimit, gcallers>>
            /\ UNCHANGED <<regVars, solVars, repVars, selVars, themeVars, scanVars, textVars>>

CityRiskIdle ==
    city_risk = [t \in GdThreads |-> [city |-> <<>>, stage |-> "none", result |-> NoResult]]

(***************************************************************************)
(* Static risk monitor (risk_monitor.scan_news_for_risk)                   *)
(***************************************************************************)
\* Longest corpus of an enumerated run.
MaxRows == 2

\* RISK_WEIGHTS, in the dict's order.
RISK_WEIGHTS ==
    << [keyword |-> <<"c","o","l","l","a","p","s","e">>, weight |-> 20],
       [keyword |-> <<"c","l","o","s","e","d">>, weight |-> 20],
       [keyword |-> <<"f","a","i","l","u","r","e">>, weight |-> 20],
       [keyword |-> <<"e","a","r","t","h","q","u","a","k","e">>, weight |-> 20],
       [keyword |-> <<"f","i","r","e">>, weight |-> 10],
       [keyword |-> <<"f","l","o","o","d">>, weight |-> 10],
       [keyword |-> <<"s","p","i","l","l">>, weight |-> 10],
       [keyword |-> <<"a","c","c","i","d","e","n","t">>, weight |-> 10],
       [keyword |-> <<"s","t","r","i","k","e">>, weight |-> 5],
       [keyword |-> <<"p","r","o","t","e","s","t">>, weight |-> 5],
       [keyword |-> <<"d","e","l","a","y">>, weight |-> 2],
       [keyword |-> <<"t","r","a","f","f","i","c">>, weight |-> 2] >>

\* Records of News_Category_Dataset_v3.json.
NewsRow(headline, short_description) ==
    [headline |-> headline, short_description |-> short_description]
NewsPortStrike == NewsRow(<<"B","o","s","t","o","n"," ","p","o","r","t"," ","s","t","r","i","k","e">>, <<"d","e","l","a","y">>)
NewsFireClosed == NewsRow(<<"F","i","r","e"," ","i","n"," ","B","O","S","T","O","N">>, <<"r","o","a","d"," ","c","l","o","s","e","d">>)

\* A city name passed with blanks around it.
TxtBostonPadded == <<" ","B","o","s","t","o","n"," ">>
TxtReportedIn == <<" ","r","e","p","o","r","t","e","d"," ","i","n"," ">>

\* str.strip() for blanks.
Strip(txt) ==
    LET solid == {i \in 1 .. Len(txt) : txt[i] # " "}
    IN IF solid = {} THEN <<>>
       ELSE LET lo == CHOOSE i \in solid : \A j \in solid : i <= j
                hi == CHOOSE i \in solid : \A j \in solid : i >= j
            IN SubSeq(txt, lo, hi)

\* str.contains(target_city, case=False, regex=False): a literal substring test.
NewsContainsPattern(text, city) ==
    \E k \in 0 .. Len(text) - Len(city) :
        \A i \in 1 .. Len(city) : city[i] = "." \/ text[k + i] = city[i]
NewsContains(text, city) == StrContains(StrLower(text), StrLower(city))

\* Lines 60-69: rows in order, keywords in RISK_WEIGHTS order, a strictly greater
\* weight replaces the best so far. The state is <<max_multiplier, detected keyword>>.
ScanRows(texts) ==
    LET n == Len(RISK_WEIGHTS)
        F[s \in 0 .. Len(texts) * n] ==
            IF s = 0 THEN [max_multiplier |-> 1, keyword |-> <<>>]
            ELSE LET text == texts[((s - 1) \div n) + 1]
                     entry == RISK_WEIGHTS[((s - 1) % n) + 1]
                     best == F[s - 1]
                 IN IF StrContains(text, entry.keyword) /\ entry.weight > best.max_multiplier
                    THEN [max_multiplier |-> entry.weight, keyword |-> entry.keyword]
                    ELSE best
    IN F[Len(texts) * n]

\* scan_news_for_risk, lines 12-80. The result is [kind, val] with kind "ret" and val
\* <<>> for None or <<signal>>.
scan_news_for_risk(file, city) ==
    LET target == StrLower(Strip(city))
    IN IF file.state = "missing" THEN Returned(<<>>)
       ELSE IF file.state = "unreadable" THEN Returned(<<>>)
       ELSE LET \* Lines 36-42: headline + " " + short_description, lower-cased.
                texts == [i \in 1 .. Len(file.rows) |->
                             StrLower(file.rows[i].headline \o <<" ">>
                                      \o file.rows[i].short_description)]
                city_news == SelectSeq(texts, LAMBDA text : NewsContains(text, target))
                best == ScanRows(city_news)
            IN IF city_news = <<>> THEN Returned(<<>>)
               ELSE IF best.max_multiplier > 1
               THEN Returned(<< [city |-> target,
                                 multiplier |-> best.max_multiplier,
                                 reason |-> StrUpper(best.keyword) \o TxtReportedIn \o target] >>)
               ELSE Returned(<<>>)

\* A caller invokes scan_news_for_risk(target_city).
ScanNewsForRisk ==
    /\ scan_result = NoResult
    /\ scan_result' = scan_news_for_risk(news_file, target_city)
    /\ UNCHANGED <<news_file, target_city>>
    /\ UNCHANGED <<regVars, gdVars, solVars, repVars, selVars, themeVars, city_risk, textVars>>

ScanIdle ==
    /\ news_file = [state |-> "missing", rows |-> <<>>]
    /\ target_city = <<>>
    /\ scan_result = NoResult

(***************************************************************************)
(* Disruption extraction (DisruptionExtractor.extract_from_text)           *)
(***************************************************************************)
\* The location keywords the extractor recognises and the routes serving each, as the
\* repository's scripts state them: Boston by routes 1 and 4, JFK by routes 2 and 7.
LOCATION_KEYWORDS ==
    << [keyword |-> <<"b","o","s","t","o","n">>, routes |-> <<1, 4>>],
       [keyword |-> <<"j","f","k">>, routes |-> <<2, 7>>] >>

\* The routes of every keyword occurring in the lower-cased text, in table order.
TargetRoutes(text) ==
    LET lower == StrLower(text)
        F[i \in 0 .. Len(LOCATION_KEYWORDS)] ==
            IF i = 0 THEN <<>>
            ELSE LET rest == F[i - 1]
                 IN IF StrContains(lower, LOCATION_KEYWORDS[i].keyword)
                    THEN rest \o LOCATION_KEYWORDS[i].routes
                    ELSE rest
    IN F[Len(LOCATION_KEYWORDS)]

\* extract_from_text(text): one event per target route; ValueError when the text
\* names no route.
ExtractWithDefaultRoutes(text) ==
    LET routes == IF TargetRoutes(text) = <<>> THEN <<1, 5>> ELSE TargetRoutes(text)
    IN Returned([i \in 1 .. Len(routes) |->
                    [target_route_id |-> routes[i],
                     impact_type |-> IF StrContains(StrLower(text), TxtStrikeLower)
                                     THEN "strike" ELSE "disruption"]])
extract_from_text(text) ==
    LET routes == TargetRoutes(text)
    IN IF routes = <<>> THEN Raised("extract_from_text", "ValueError")
       ELSE Returned([i \in 1 .. Len(routes) |->
                         [target_route_id |-> routes[i],
                          impact_type |-> IF StrContains(StrLower(text), TxtStrikeLower)
                                          THEN "strike" ELSE "disruption"]])

\* A caller invokes extractor.extract_from_text(alert_text).
ExtractFromText ==
    /\ alert_events = NoResult
    /\ alert_events' = extract_from_text(alert_text)
    /\ UNCHANGED <<alert_text, cost_usd, usd_to_inr, formatted>>
    /\ UNCHANGED <<regVars, gdVars, solVars, repVars, selVars, themeVars, city_risk, scanVars>>

(***************************************************************************)
(* Rupee formatting (check_city_risks.py)                                  *)
(***************************************************************************)
\* Line 17.
USD_TO_INR == 83

\* str(abs(n)), line 31: the decimal digits, most significant first.
DigitChars == <<"0","1","2","3","4","5","6","7","8","9">>
RECURSIVE DigitsOf(_)
DigitsOf(n) ==
    IF n < 10 THEN <<DigitChars[n + 1]>>
    ELSE Append(DigitsOf(n \div 10), DigitChars[(n % 10) + 1])

\* Lines 38-42: the head cut into pairs from the right, the leftover 1-2 digits first.
RECURSIVE HeadParts(_)
HeadParts(head) ==
    IF Len(head) > 2
    THEN Append(HeadParts(SubSeq(head, 1, Len(head) - 2)),
                SubSeq(head, Len(head) - 1, Len(head)))
    ELSE <<head>>

\* ",".join(parts), line 44.
RECURSIVE JoinCommas(_)
JoinCommas(parts) ==
    IF Len(parts) = 1 THEN parts[1]
    ELSE parts[1] \o <<",">> \o JoinCommas(Tail(parts))

\* _format_indian_commas(n), lines 24-46.
FormatWesternCommas(n) ==
    LET s == DigitsOf(IF n < 0 THEN -n ELSE n)
        F[i \in 0 .. Len(s)] ==
            IF i = 0 THEN <<>>
            ELSE LET rest == F[i - 1]
                 IN IF i > 1 /\ (Len(s) - i + 1) % 3 = 0
                    THEN rest \o <<",", s[i]>> ELSE Append(rest, s[i])
    IN (IF n < 0 THEN <<"-">> ELSE <<>>) \o F[Len(s)]
_format_indian_commas(n) ==
    LET s == DigitsOf(IF n < 0 THEN -n ELSE n)
        sign == IF n >= 0 THEN <<>> ELSE <<"-">>
    IN IF Len(s) <= 3 THEN sign \o s
       ELSE LET tail == SubSeq(s, Len(s) - 2, Len(s))
                head == SubSeq(s, 1, Len(s) - 3)
            IN sign \o JoinCommas(HeadParts(head)) \o <<",">> \o tail

\* format_cost_inr(cost_usd, usd_to_inr), lines 170-186: int(cost_usd * rate) after
\* the rupee sign.
\* The rupee sign U+20B9 is written "RUPEE".
format_cost_inr(usd, rate) == <<"RUPEE">> \o _format_indian_commas(usd * rate)

\* A caller invokes checker.format_cost_inr(cost_usd, usd_to_inr).
FormatCostInr ==
    /\ formatted = <<>>
    /\ formatted' = <<format_cost_inr(cost_usd, usd_to_inr)>>
    /\ UNCHANGED <<alert_text, alert_events, cost_usd, usd_to_inr>>
    /\ UNCHANGED <<regVars, gdVars, solVars, repVars, selVars, themeVars, city_risk, scanVars>>

TextIdle ==
    /\ alert_text = <<>>
    /\ alert_events = NoResult
    /\ cost_usd = 0
    /\ usd_to_inr = USD_TO_INR
    /\ formatted = <<>>

FnIdle == RepIdle /\ SelIdle /\ ThemeIdle /\ CityRiskIdle /\ ScanIdle /\ TextIdle

InitReg ==
    /\ RegIdle /\ GdIdle /\ SolIdle /\ FnIdle

SpecReg ==
    /\ InitReg
    /\ [][\/ \E t \in Callers, c \in Cities : RegEnter(t, c)
          \/ \E t \in Callers : CreateDirect(t)
          \/ \E t \in Callers : CreateMultihop(t)
          \/ \E t \in Callers : RegReturn(t)]_vars

InitSeq ==
    /\ RegIdle
    /\ SolIdle
    /\ FnIdle
    /\ \E retries \in 0 .. MaxRetries : GdConstructed(retries, {1}, MaxGdCalls)

SpecSeq ==
    /\ InitSeq
    /\ [][NextGd]_vars

InitConc ==
    /\ RegIdle
    /\ SolIdle
    /\ FnIdle
    /\ GdConstructed(1, GdThreads, 2)

SpecConc ==
    /\ InitConc
    /\ [][NextGd]_vars

\* A call of either solver, whatever the dataset file holds.
SolverCalls ==
    /\ RegIdle
    /\ GdIdle
    /\ SolOutputsUnset
    /\ (GuardianInputs \/ LegacyInputs)
    \* The report a caller builds from the plans a solver returned: for the request's
    \* destination after solve_guardian_plan, for every destination after
    \* solve_mitigation_plan. get_full_route_map() holds the predefined routes, then
    \* the routes created for a dynamic city in creation order.
    /\ full_route_map =
          IF smode = "guardian"
             /\ \E i \in 1 .. Len(city_routes) : city_routes[i] > PREDEFINED_ROUTE_COUNT
          THEN route_map \o [i \in 1 .. Len(city_routes) |->
                                DynamicEntry(city_routes[i], requirements.destination)]
          ELSE route_map
    /\ filter_destination = IF smode = "guardian" THEN requirements.destination ELSE ""
    /\ report_data = <<>>
    /\ SelIdle /\ ThemeIdle /\ CityRiskIdle /\ ScanIdle /\ TextIdle

\* The solver calls with no dataset file in the working directory.
InitSolver == SolverCalls /\ cost_dataset = "missing"

SpecSolver == InitSolver /\ [][NextSolver]_vars

\* The solver calls with the dataset file missing, unparsable or lacking its columns.
InitDataset == SolverCalls /\ cost_dataset \in {"missing", "unparsable", "no_columns"}

SpecDataset == InitDataset /\ [][NextSolver]_vars

\* generate_impact_report on plans of any origin.
InitReport ==
    /\ RegIdle /\ GdIdle
    /\ GuardianIdle /\ gdelt_service = "none" /\ cost_dataset = "missing"
    /\ alert_json_list = <<>> /\ SolLocalsUnset
    /\ smode = "report"
    /\ spc = "done"
    /\ initial_plan \in Plans
    /\ mitigation_plan \in Plans
    /\ full_route_map \in {route_map, GrownRouteMap}
    /\ filter_destination \in {"", "Chicago", "Atlantis"}
    /\ report_data = <<>>
    /\ SelIdle /\ ThemeIdle /\ CityRiskIdle /\ ScanIdle /\ TextIdle

SpecReport ==
    /\ InitReport
    /\ [][GenerateImpactReport]_vars

\* select_routes_with_llm / rule_based_route_selection over enumerated routes.
InitSelect ==
    /\ RegIdle /\ GdIdle /\ SolIdle
    /\ RepIdle /\ ThemeIdle /\ CityRiskIdle /\ ScanIdle /\ TextIdle
    \* A call for a city with one to MaxOptions routes; budgets in cents, 0 for none.
    /\ quantity \in {0, 1, 10}
    /\ budget \in {0, 32000, 100000, 400000}
    /\ \E n \in 1 .. MaxOptions :
          \E costs \in [1 .. n -> CostValues] :
              route_options = [i \in 1 .. n |-> RouteOption(i, costs[i], quantity)]
    /\ selection = <<>>

SpecSelect ==
    /\ InitSelect
    /\ [][RuleBasedRouteSelection]_vars

\* _compute_multiplier over enumerated theme texts.
InitThemes ==
    /\ RegIdle /\ GdIdle /\ SolIdle
    /\ RepIdle /\ SelIdle /\ CityRiskIdle /\ ScanIdle /\ TextIdle
    \* Tags a record may carry: the watch-list, a lower-case spelling, tags outside it.
    /\ theme_tags \in UNION {[1 .. n -> SeqToSet(TARGET_THEMES)
                                           \cup {TxtStrikeLower, TxtEconomy, TxtSports}] :
                                n \in 0 .. MaxTags}
    /\ theme_multiplier = 0

SpecThemes ==
    /\ InitThemes
    /\ [][ComputeMultiplier]_vars

\* One caller of get_city_risk on one service.
InitRisk ==
    /\ RegIdle /\ SolIdle
    /\ GdConstructed(1, {1}, MaxRiskCalls)
    /\ FnIdle

SpecRisk ==
    /\ InitRisk
    /\ [][\/ \E t \in GdThreads, force \in BOOLEAN,
                c \in {<<>>, TxtMumbaiLower, TxtBostonUpper, <<"P","u","n","e">>} :
                CityRiskEnter(t, c, force)
          \/ \E t \in GdThreads : CityRiskReturn(t)
          \/ NextGdSteps]_vars

\* Two resolutions in a row by one caller, who passes its service to both or to
\* neither.
InitResolve ==
    /\ RegIdle
    /\ smode = "guardian" /\ GuardianIdle /\ alert_json_list = <<>> /\ SolOutputsUnset
    /\ cost_dataset = "missing"
    /\ gdelt_service \in {"none", "shared"}
    /\ GdConstructed(2, GdThreads, MaxRiskCalls)
    /\ FnIdle

SpecResolve ==
    /\ InitResolve
    /\ [][\/ \E t \in GdThreads : ResolveRiskLive(t, TxtMumbaiLower)
          \/ \E t \in GdThreads : CityRiskReturn(t)
          \/ NextGdSteps]_vars

\* scan_news_for_risk over enumerated corpora and city names.
InitScan ==
    /\ RegIdle /\ GdIdle /\ SolIdle
    /\ RepIdle /\ SelIdle /\ ThemeIdle /\ CityRiskIdle /\ TextIdle
    \* The dataset file as a call may find it: missing, unreadable, or up to MaxRows
    \* records.
    /\ \/ news_file \in {[state |-> "missing", rows |-> <<>>],
                           [state |-> "unreadable", rows |-> <<>>]}
       \/ \E n \in 0 .. MaxRows :
             \E rows \in [1 .. n -> {NewsPortStrike, NewsFireClosed,
                                      NewsRow(<<"B","u","s"," ","f","i","r","e">>, <<>>),
                                      NewsRow(<<"P","u","n","e">>, <<"t","r","a","f","f","i","c">>),
                                      NewsRow(<<"B","o","s","t","o","n"," ","w","i","n","s">>,
                                              <<"p","a","r","a","d","e">>)}] :
                 news_file = [state |-> "ok", rows |-> rows]
    \* City names: padded, differently cased, with a regex metacharacter, unmentioned.
    /\ target_city \in {TxtBostonPadded, TxtBostonUpper, <<"P","U","N","E">>,
                         <<"b",".","s">>, <<"o","s","l","o">>}
    /\ scan_result = NoResult

SpecScan ==
    /\ InitScan
    /\ [][ScanNewsForRisk]_vars

\* Bounds of the text calls: typed texts up to MaxTextLen characters, amounts up to
\* MaxAmount dollars.
MaxTextLen == 3
MaxAmount == 1200

\* One extract_from_text call on an alert text, or one format_cost_inr call on an
\* amount, each started from nothing else having happened.
InitText ==
    /\ RegIdle /\ GdIdle /\ SolIdle
    /\ RepIdle /\ SelIdle /\ ThemeIdle /\ CityRiskIdle /\ ScanIdle
    /\ alert_events = NoResult /\ formatted = <<>>
    /\ \/ /\ alert_text \in
                UNION {[1 .. n -> {"j", "F", "k", "x", " "}] : n \in 0 .. MaxTextLen}
                \cup {<<"T","o","x","i","c"," ","S","p","i","l","l">>,
                      <<"S","t","r","i","k","e"," ","a","t"," ","J","F","K">>,
                      <<"B","o","s","t","o","n"," ","p","o","r","t">>,
                      <<"J","F","K"," ","t","o"," ","B","O","S","T","O","N">>,
                      <<"b","o","s","t","o","x"," ","j","k","f">>}
          /\ cost_usd = 0 /\ usd_to_inr = USD_TO_INR
       \/ /\ alert_text = <<>>
          /\ cost_usd \in 0 .. MaxAmount \cup {99999, 100000, 123456, 1234567, 12345678}
          /\ usd_to_inr \in {1, USD_TO_INR}

SpecText ==
    /\ InitText
    /\ [][ExtractFromText \/ FormatCostInr]_vars

\* One caller mixes fetch_latest_gkg and get_disruptions_from_gdelt calls on one service.
InitMix ==
    /\ RegIdle /\ SolIdle /\ FnIdle
    /\ GdConstructed(1, {1}, MaxGdCalls)

SpecMix ==
    /\ InitMix
    /\ [][\/ \E force \in BOOLEAN : FetchEnter(1, force)
          \/ NextGd]_vars

(***************************************************************************)
(* C1: for a new city and any number of concurrent callers of              *)
(* get_routes_for_city(city, include_multihop=True), exactly one set of    *)
(* routes is created: every call, concurrent or later, returns the same    *)
(* route-id sequence; it holds |warehouses| + |warehouses|*|hubs| distinct *)
(* ids (never a partially created set), and it is the city's registered    *)
(* list, which later calls do not grow.                                    *)
(***************************************************************************)
C1_CreatedOnce ==
    \A c \in Cities :
        \A i \in 1 .. Len(returned[c]) :
            /\ returned[c][i] = returned[c][1]
            /\ Len(returned[c][i]) = NumWarehouses + NumWarehouses * NumHubs
            /\ NoDuplicates(returned[c][i])
            /\ returned[c][i] = cityRoutes[c]

\* Three calls for one city have returned, the last two finding it created.
C1_Witness ==
    \E c \in Cities : Len(returned[c]) >= 3

(***************************************************************************)
(* C2: route-id sets of distinct cities are pairwise disjoint, no city's   *)
(* list has a duplicate, and every registered id denotes exactly one route *)
(* (the route of the city that lists it), in every reachable state and in  *)
(* everything returned to callers.                                         *)
(***************************************************************************)
C2_DisjointIds ==
    /\ \A c \in Cities :
          /\ NoDuplicates(cityRoutes[c])
          /\ \A r \in SeqToSet(cityRoutes[c]) :
                r \in DOMAIN routeMap /\ routeMap[r][Len(routeMap[r])] = c
          /\ \A i \in 1 .. Len(returned[c]) : NoDuplicates(returned[c][i])
    /\ \A c1, c2 \in Cities :
          c1 # c2 =>
            /\ SeqToSet(cityRoutes[c1]) \cap SeqToSet(cityRoutes[c2]) = {}
            /\ \A i \in 1 .. Len(returned[c1]), j \in 1 .. Len(returned[c2]) :
                  SeqToSet(returned[c1][i]) \cap SeqToSet(returned[c2][j]) = {}

\* Two distinct cities have both been created and returned to callers.
C2_Witness ==
    \E c1, c2 \in Cities :
        c1 # c2 /\ Len(returned[c1]) > 0 /\ Len(returned[c2]) > 0

(***************************************************************************)
(* Completed calls of get_disruptions_from_gdelt, as the claims read them. *)
(***************************************************************************)
CallDone(t) == gpc[t] = "idle" /\ gresult[t].kind # "none"
\* The stored expiry timestamp was in the future when the call was made.
BeforeExpiryAtCall(t) == gcall[t].callExp # -1 /\ gcall[t].callNow < gcall[t].callExp

(***************************************************************************)
(* C3 (as amended): on one service used by one caller, a non-forced        *)
(* get_disruptions_from_gdelt made before the stored expiry issues no HTTP *)
(* request and returns the list the latest refresh returned; a non-forced  *)
(* call made at or after the expiry (or with nothing cached) issues a new  *)
(* manifest request, and a snapshot request exactly when the manifest      *)
(* request succeeded and named a GKG archive.                              *)
(***************************************************************************)
C3_CacheFreshness ==
    \A t \in GdThreads :
        ~gcall[t].force =>
            /\ BeforeExpiryAtCall(t) =>
                 /\ gpc[t] \in {"idle", "gd_hit"}
                 /\ gcall[t].logM = <<>> /\ gcall[t].logZ = <<>>
                 /\ CallDone(t) => gresult[t] = Returned(lastRefresh)
            /\ (CallDone(t) /\ ~BeforeExpiryAtCall(t)) =>
                 /\ Len(gcall[t].logM) >= 1
                 /\ Len(gcall[t].logZ) >= 1 <=> gcall[t].url # 0

\* A non-forced call made after time has passed, before the expiry, was answered
\* from the cache with the non-empty list of the earlier refresh.
C3_Witness ==
    \E t \in GdThreads :
        /\ CallDone(t) /\ ~gcall[t].force /\ BeforeExpiryAtCall(t)
        /\ gcall[t].callNow > 0
        /\ gresult[t].kind = "ret" /\ gresult[t].val # <<>>

(***************************************************************************)
(* C3 (original): ... the first non-forced call made at or after the       *)
(* expiry issues a new manifest fetch and a new snapshot fetch.            *)
(***************************************************************************)
C3_Original ==
    \A t \in GdThreads :
        ~gcall[t].force =>
            /\ BeforeExpiryAtCall(t) =>
                 /\ gcall[t].logM = <<>> /\ gcall[t].logZ = <<>>
                 /\ CallDone(t) => gresult[t] = Returned(lastRefresh)
            /\ (CallDone(t) /\ gcall[t].callExp # -1 /\ gcall[t].callNow >= gcall[t].callExp) =>
                 /\ Len(gcall[t].logM) >= 1
                 /\ Len(gcall[t].logZ) >= 1

(***************************************************************************)
(* C5: per URL _http_get_with_retry makes at most max(max_retries, 1) GET  *)
(* attempts, stops at the first success, and when every attempt fails      *)
(* raises with the last attempt's error as cause; the attempt counter      *)
(* bounds the loop, one uncached fetch issues at most 2 * max(max_retries, *)
(* 1) requests, and the snapshot is requested only after the manifest      *)
(* request succeeded.                                                      *)
(***************************************************************************)
C5_BoundedRetry ==
    LET attempts == IF max_retries >= 1 THEN max_retries ELSE 1
    IN \A t \in GdThreads :
        LET c == gcall[t]
        IN /\ Len(c.logM) <= attempts /\ Len(c.logZ) <= attempts
           /\ Len(c.logM) + Len(c.logZ) <= 2 * attempts
           /\ \A log \in {c.logM, c.logZ} :
                  \A i \in 1 .. Len(log) : log[i] = "ok" => i = Len(log)
           /\ c.logZ # <<>> => (c.logM # <<>> /\ c.logM[Len(c.logM)] = "ok" /\ c.url # 0)
           /\ gpc[t] = "manifest" => (c.attempt = Len(c.logM) + 1 /\ c.attempt <= attempts)
           /\ gpc[t] = "zip" => (c.attempt = Len(c.logZ) + 1 /\ c.attempt <= attempts)
           /\ (CallDone(t) /\ gresult[t].kind = "raise" /\ gresult[t].stage = "manifest") =>
                /\ Len(c.logM) = attempts /\ c.logZ = <<>>
                /\ \A i \in 1 .. Len(c.logM) : c.logM[i] \in HttpErrors
                /\ gresult[t].cause = c.logM[Len(c.logM)]
           /\ (CallDone(t) /\ gresult[t].kind = "raise" /\ gresult[t].stage = "zip") =>
                /\ Len(c.logZ) = attempts
                /\ \A i \in 1 .. Len(c.logZ) : c.logZ[i] \in HttpErrors
                /\ gresult[t].cause = c.logZ[Len(c.logZ)]

\* The manifest request succeeded on a retry, and the snapshot request then failed
\* on every attempt with two different errors.
C5_Witness ==
    \E t \in GdThreads :
        /\ CallDone(t) /\ gresult[t].kind = "raise" /\ gresult[t].stage = "zip"
        /\ Len(gcall[t].logM) = 2 /\ Len(gcall[t].logZ) = 2
        /\ gcall[t].logZ[1] # gcall[t].logZ[2]

(***************************************************************************)
(* C6: under concurrent get_disruptions_from_gdelt calls the cache is      *)
(* never torn: once the calls have completed and the cache is valid, the   *)
(* cached disruption list is filter_disruption_themes of the cached frame. *)
(***************************************************************************)
C6_CacheNeverTorn ==
    (/\ \A t \in GdThreads : gpc[t] = "idle"
     /\ _is_cache_valid
     /\ cached_gkg_df # 0
     /\ cached_disruptions # <<>>)
    => cached_disruptions[1] = FeedDisruptions[cached_gkg_df]

(***************************************************************************)
(* C4: _resolve_risk_data never raises and follows the priority-fallback   *)
(* rule: with the live path enabled and a live signal, exactly that signal *)
(* is returned whatever the static monitor reports; in every other case    *)
(* (live disabled, live absent, live lookup raising) the result is the     *)
(* static monitor's signal, tagged with its source, or absent when the     *)
(* static monitor finds nothing.                                           *)
(***************************************************************************)
C4_PriorityFallback ==
    /\ risk_raised = FALSE /\ spc # "failed"
    /\ (smode = "guardian" /\ spc \notin {"start", "unknown"}) =>
         IF (use_live_gdelt \/ env_live) /\ live_outcome.kind = "signal"
         THEN risk_data = <<live_outcome.risk>>
         ELSE IF static_outcome = <<>>
         THEN risk_data = <<>>
         ELSE /\ Len(risk_data) = 1
              /\ DOMAIN risk_data[1] = DOMAIN static_outcome[1] \cup {"source"}
              /\ \A k \in DOMAIN static_outcome[1] : risk_data[1][k] = static_outcome[1][k]

\* The live signal won although the static monitor reported a higher multiplier.
C4_Witness ==
    /\ smode = "guardian" /\ spc = "resolved"
    /\ env_live /\ ~use_live_gdelt
    /\ live_outcome.kind = "signal"
    /\ static_outcome # <<>>
    /\ static_outcome[1].multiplier > live_outcome.risk.multiplier
    /\ risk_data = <<live_outcome.risk>>

(***************************************************************************)
(* C7: a disruption multiplier changes only the targeted routes' costs.    *)
(* solve_mitigation_plan: every route id named by no alert keeps its base  *)
(* cost and target ids absent from the cost map add nothing to it.         *)
(* solve_guardian_plan: only the primary route's cost is multiplied, every *)
(* backup keeps its base cost. The base cost map is never modified.        *)
(***************************************************************************)
C7_NamedTargets ==
    UNION {SeqToSet(TargetIds(alert_json_list[i])) : i \in 1 .. Len(alert_json_list)}

C8_BaselinePrimary ==
    (smode = "guardian" /\ spc = "done") =>
        /\ best_normal = primary_route
        /\ primary_route \in DOMAIN initial_plan
        /\ initial_plan[primary_route] = demand_qty
        /\ \A r \in DOMAIN initial_plan : r # primary_route => initial_plan[r] = 0

\* A risk was resolved and a backup is cheaper than the primary even at base cost.
C8_Witness ==
    /\ smode = "guardian" /\ spc = "done"
    /\ risk_data # <<>>
    /\ \E b \in SeqToSet(city_routes) : base_cost_map[b] < base_cost_map[primary_route]
    /\ initial_plan[primary_route] = demand_qty /\ demand_qty > 0

(***************************************************************************)
(* C9: the route that receives the quantity in the mitigation plan has     *)
(* minimum current (multiplier-adjusted) cost among all routes of the      *)
(* city, direct and multi-hop together.                                    *)
(***************************************************************************)
C9_MitigatedIsCheapest ==
    (smode = "guardian" /\ spc = "done") =>
        \A chosen \in DOMAIN mitigation_plan :
            mitigation_plan[chosen] > 0 =>
                \A r \in SeqToSet(city_routes) :
                    current_cost_map[r] >= current_cost_map[chosen]

\* The risk made a multi-hop route the cheapest and it received the quantity.
C9_Witness ==
    /\ smode = "guardian" /\ spc = "done"
    /\ risk_data # <<>>
    /\ best_risky >= MULTIHOP_ROUTE_START_ID
    /\ mitigation_plan[best_risky] = demand_qty /\ demand_qty > 0
    /\ current_cost_map[best_risky] < current_cost_map[primary_route]

(***************************************************************************)
(* C10: both plans have exactly the city's route ids as keys; each assigns *)
(* the full quantity (the requested one, or the city's default when none   *)
(* was requested) to exactly one route and zero to every other, so both    *)
(* totals equal the quantity.                                              *)
(***************************************************************************)
C10_OneRouteGetsAll(plan, qty) ==
    /\ DOMAIN plan = SeqToSet(city_routes)
    /\ Cardinality({r \in DOMAIN plan : plan[r] = qty}) = 1
    /\ \A r \in DOMAIN plan : plan[r] \in {0, qty}
    /\ LET ids == city_routes
           F[i \in 0 .. Len(ids)] == IF i = 0 THEN 0 ELSE F[i - 1] + plan[ids[i]]
       IN F[Len(ids)] = qty

C10_PlansComplete ==
    (smode = "guardian" /\ spc = "done") =>
        /\ demand_qty = IF requirements.quantity # 0 THEN requirements.quantity
                        ELSE get_city_demand(requirements.destination)
        /\ demand_qty > 0
        /\ C10_OneRouteGetsAll(initial_plan, demand_qty)
        /\ C10_OneRouteGetsAll(mitigation_plan, demand_qty)

\* No quantity was requested, the city has three routes and the shipment was rerouted.
C10_Witness ==
    /\ smode = "guardian" /\ spc = "done"
    /\ requirements.quantity = 0
    /\ Len(city_routes) >= 3
    /\ best_normal # best_risky
    /\ initial_plan[best_normal] = get_city_demand(requirements.destination)
    /\ mitigation_plan[best_risky] = get_city_demand(requirements.destination)

(***************************************************************************)
(* C11: when a backup route of the city has a lower disrupted cost than    *)
(* the primary P (P's base cost times the risk multiplier), the mitigated  *)
(* selection of solve_guardian_plan is the cheapest such backup B, and     *)
(* generate_impact_report on the two plans marks P STOPPED, B ACTIVATED    *)
(* and every other route of the city AVAILABLE.                            *)
(***************************************************************************)
C11_ReroutingTrigger ==
    (smode = "guardian" /\ spc = "done" /\ report_data # <<>>) =>
        LET P == primary_route
            cheaper == {b \in SeqToSet(city_routes) \ {P} :
                           current_cost_map[b] < current_cost_map[P]}
            rows == report_data[1]
        IN cheaper # {} =>
              /\ best_risky \in cheaper
              /\ \A b \in cheaper : current_cost_map[best_risky] <= current_cost_map[b]
              /\ {rows[i].route_id : i \in 1 .. Len(rows)} = SeqToSet(city_routes)
              /\ \A i \in 1 .. Len(rows) :
                    rows[i].status = IF rows[i].route_id = P THEN "STOPPED"
                                     ELSE IF rows[i].route_id = best_risky THEN "ACTIVATED"
                                     ELSE "AVAILABLE"

\* The primary was the cheapest route until a risk multiplied its cost; the report of
\* the three-route city shows one route of each status.
C11_Witness ==
    /\ smode = "guardian" /\ spc = "done" /\ report_data # <<>>
    /\ risk_data # <<>>
    /\ \A r \in SeqToSet(city_routes) : base_cost_map[primary_route] <= base_cost_map[r]
    /\ best_risky # primary_route
    /\ {report_data[1][i].status : i \in 1 .. Len(report_data[1])}
          = {"STOPPED", "ACTIVATED", "AVAILABLE"}

(***************************************************************************)
(* C12: with the embedded cost table (Route 1: 157.75 x 2.0, Route 4:      *)
(* 159.25 x 2.0, both serving Boston), alerts that multiply only Route 1   *)
(* of Boston's routes, by 10.0, make solve_mitigation_plan give Boston's   *)
(* quantity to Route 4 in the mitigation plan and to Route 1 in the        *)
(* initial plan, with 0 on the other route in each plan.                   *)
(***************************************************************************)
C12_BostonExample ==
    (/\ smode = "legacy" /\ spc = "done"
     /\ 4 \notin C7_NamedTargets
     /\ \E i \in 1 .. Len(alert_json_list) :
           /\ 1 \in SeqToSet(TargetIds(alert_json_list[i]))
           /\ alert_json_list[i].cost_multiplier = 10)
    => /\ base_cost_map[1] = 31550 /\ base_cost_map[4] = 31850
       /\ initial_plan[1] = DEMAND_REQ["Boston"] /\ initial_plan[4] = 0
       /\ mitigation_plan[4] = DEMAND_REQ["Boston"] /\ mitigation_plan[1] = 0
       /\ DEMAND_REQ["Boston"] > 0

\* The single alert {target_route_id: 1, cost_multiplier: 10.0} moved Boston to Route 4.
C12_Witness ==
    /\ smode = "legacy" /\ spc = "done"
    /\ Len(alert_json_list) = 1
    /\ alert_json_list[1].target_route_id.kind = "int"
    /\ alert_json_list[1].target_route_id.id = 1
    /\ alert_json_list[1].cost_multiplier = 10
    /\ current_cost_map[1] = 315500
    /\ initial_plan[1] > 0 /\ mitigation_plan[4] = initial_plan[1]

(***************************************************************************)
(* C13: the status of generate_impact_report is a total classification of  *)
(* (initial quantity, final quantity) over non-negative quantities:        *)
(* STOPPED iff initial > 0 and final = 0, ACTIVATED iff initial = 0 and    *)
(* final > 0, UNCHANGED iff initial = final > 0, AVAILABLE iff both are 0, *)
(* ADJUSTED iff both are nonzero and different; exactly one applies.       *)
(***************************************************************************)
C13_StatusTotal ==
    report_data # <<>> =>
        \A i \in 1 .. Len(report_data[1]) :
            LET old_qty == report_data[1][i].initial_qty
                new_qty == report_data[1][i].final_qty
                status == report_data[1][i].status
            IN /\ status \in {"STOPPED", "ACTIVATED", "UNCHANGED", "AVAILABLE", "ADJUSTED"}
               /\ status = "STOPPED" <=> (old_qty > 0 /\ new_qty = 0)
               /\ status = "ACTIVATED" <=> (old_qty = 0 /\ new_qty > 0)
               /\ status = "UNCHANGED" <=> (old_qty = new_qty /\ old_qty > 0)
               /\ status = "AVAILABLE" <=> (old_qty = 0 /\ new_qty = 0)
               /\ status = "ADJUSTED" <=> (old_qty # 0 /\ new_qty # 0 /\ old_qty # new_qty)

\* One report holds an ADJUSTED, an UNCHANGED and an AVAILABLE row.
C13_Witness ==
    /\ report_data # <<>>
    /\ {"ADJUSTED", "UNCHANGED", "AVAILABLE"}
          \subseteq {report_data[1][i].status : i \in 1 .. Len(report_data[1])}

(***************************************************************************)
(* C14: generate_impact_report emits exactly one row for every route of    *)
(* the full route map whose destination equals filter_destination and no   *)
(* row for any other route (with no filter: one row for every route); a    *)
(* route missing from a plan is reported with quantity 0; rows of one      *)
(* destination are contiguous and in ascending route-id order.             *)
(***************************************************************************)
C14_RowsOfDestination ==
    (spc = "done" /\ report_data # <<>>) =>
        LET rows == report_data[1]
            frm == full_route_map
            wanted == {frm[k].id : k \in {k \in 1 .. Len(frm) :
                          filter_destination = ""
                          \/ RouteDestination(frm[k].route) = filter_destination}}
            dest(i) == RouteDestination(RouteOf(frm, rows[i].route_id))
        IN /\ {rows[i].route_id : i \in 1 .. Len(rows)} = wanted
           /\ Len(rows) = Cardinality(wanted)
           /\ \A i \in 1 .. Len(rows) :
                 /\ rows[i].initial_qty = IF rows[i].route_id \in DOMAIN initial_plan
                                          THEN initial_plan[rows[i].route_id] ELSE 0
                 /\ rows[i].final_qty = IF rows[i].route_id \in DOMAIN mitigation_plan
                                        THEN mitigation_plan[rows[i].route_id] ELSE 0
           /\ \A i, j \in 1 .. Len(rows) :
                 (i < j /\ dest(i) = dest(j)) =>
                    /\ rows[i].route_id < rows[j].route_id
                    /\ \A k \in i .. j : dest(k) = dest(i)

\* An unfiltered report over a registry whose Chicago routes were registered out of
\* id order, from plans that name an unregistered id and omit registered ones.
C14_Witness ==
    /\ smode = "report" /\ report_data # <<>>
    /\ full_route_map = GrownRouteMap
    /\ filter_destination = ""
    /\ Len(report_data[1]) = Len(GrownRouteMap)
    /\ 77 \in DOMAIN initial_plan /\ initial_plan[77] > 0
    /\ 3 \notin DOMAIN mitigation_plan
    /\ \E i \in 1 .. Len(report_data[1]) - 1 :
          report_data[1][i].route_id = 10 /\ report_data[1][i + 1].route_id = 1000

(***************************************************************************)
(* C15: with a budget, rule_based_route_selection selects the cheapest of  *)
(* the routes whose total cost for the quantity is within the budget; if   *)
(* no route is within the budget it selects the globally cheapest route    *)
(* and the returned result indicates that the budget was exceeded.         *)
(***************************************************************************)
C15_BudgetRule ==
    (selection # <<>> /\ budget # 0) =>
        LET res == selection[1]
            n == Len(route_options)
            within == {i \in 1 .. n : route_options[i].total_cost_for_full_qty <= budget}
            pool == IF within # {} THEN within ELSE 1 .. n
        IN /\ \E i \in pool :
                 /\ route_options[i].route_id = res.selected_routes[1].route_id
                 /\ \A j \in pool :
                       route_options[i].cost_per_unit <= route_options[j].cost_per_unit
           /\ res.selected_routes[1].quantity = quantity
           /\ within = {} =>
                 /\ \E i \in 1 .. Len(res.analysis) : res.analysis[i] = "Budget exceeded"
                 /\ \A i \in 1 .. Len(res.analysis) : res.analysis[i] # "Within budget"

(***************************************************************************)
(* C16: when the parser yields no destination, solve_guardian_plan returns *)
(* the Unknown Destination result (no plans, no destination) without       *)
(* resolving any risk, without a live fetch, without creating a route in   *)
(* the registry and without substituting a default city: none of           *)
(* _resolve_risk_data, get_city_risk, scan_news_for_risk and               *)
(* get_routes_for_city is called and no default quantity is looked up.     *)
(***************************************************************************)
C16_UnknownDestination ==
    (smode = "guardian" /\ requirements.destination = "") =>
        /\ spc \in {"start", "unknown"}
        /\ spc = "unknown" => risk_info_str = <<"Unknown Destination">>
        /\ initial_plan = << >> /\ mitigation_plan = << >>
        /\ collab_calls = <<>>
        /\ risk_data = <<>>
        /\ demand_qty = 0 /\ best_normal = 0 /\ best_risky = 0
        /\ report_data = <<>>

\* The call returned Unknown Destination although the live path was enabled and both
\* risk sources had a signal to give.
C16_Witness ==
    /\ smode = "guardian" /\ requirements.destination = ""
    /\ spc = "unknown" /\ risk_info_str = <<"Unknown Destination">>
    /\ use_live_gdelt /\ live_outcome.kind = "signal" /\ static_outcome # <<>>

(***************************************************************************)
(* C17: filter_disruption_themes emits a disruption for a record if and    *)
(* only if at least one of the record's theme tags is a watch-list theme;  *)
(* a record whose tags are all outside the watch-list (one tagged only     *)
(* SPORTS) or whose theme field is empty yields no disruption. Checked on  *)
(* every list a refresh returns: its disruptions are, in order, those of   *)
(* the snapshot's rows that carry a watch-list tag.                        *)
(***************************************************************************)
C17_WatchListOnly ==
    \A t \in GdThreads :
        (CallDone(t) /\ gresult[t].kind = "ret" /\ gcall[t].df # 0) =>
            LET has_watch_tag(row) ==
                    \E i \in 1 .. Len(SplitTags(row.V2Themes)) :
                        StrUpper(SplitTags(row.V2Themes)[i]) \in SeqToSet(TARGET_THEMES)
                watched == SelectSeq(Feed[gcall[t].df], has_watch_tag)
            IN [i \in 1 .. Len(gresult[t].val) |-> gresult[t].val[i].article_url]
                  = [i \in 1 .. Len(watched) |-> watched[i].DocumentIdentifier]

C19_CityRisk ==
    \A t \in GdThreads :
        city_risk[t].stage = "done" =>
            LET c == city_risk[t].city
                res == city_risk[t].result
                ds == gresult[t].val
                matching == {i \in 1 .. Len(ds) :
                                \E k \in 1 .. Len(ds[i].locations) :
                                    StrContains(StrLower(ds[i].locations[k]), StrLower(c))}
            IN /\ c = <<>> =>
                    /\ res = Returned(<<>>)
                    /\ gpc[t] = "idle" /\ gcall[t].logM = <<>> /\ gcall[t].logZ = <<>>
               /\ (c # <<>> /\ res.kind = "ret") =>
                    /\ res.val = <<>> <=> matching = {}
                    /\ matching # {} =>
                         /\ \A i \in matching : ds[i].multiplier <= res.val[1].multiplier
                         /\ \E i \in matching :
                               /\ ds[i].multiplier = res.val[1].multiplier
                               /\ ds[i].reason = res.val[1].reason
                               /\ ds[i].themes = res.val[1].themes
                               /\ ds[i].article_url = res.val[1].article_url

\* "mumbai" matched a strike record and, after it, a flood record: the flood record's
\* multiplier and article were returned.
C19_Witness ==
    \E t \in GdThreads :
        /\ city_risk[t].stage = "done"
        /\ city_risk[t].city = TxtMumbaiLower
        /\ city_risk[t].result.kind = "ret" /\ city_risk[t].result.val # <<>>
        /\ city_risk[t].result.val[1].multiplier = 20
        /\ \E i \in 1 .. Len(gresult[t].val) :
              /\ gresult[t].val[i].multiplier = 5
              /\ \E k \in 1 .. Len(gresult[t].val[i].locations) :
                    StrContains(StrLower(gresult[t].val[i].locations[k]), TxtMumbaiLower)

(***************************************************************************)
(* C20: scan_news_for_risk(city) considers exactly the corpus records      *)
(* whose text contains the city name as a case-insensitive literal         *)
(* substring and returns the maximum RISK_WEIGHTS weight over the keywords *)
(* occurring in those records, with a reason naming a keyword of that      *)
(* weight; it returns absent when no record mentions the city or no        *)
(* keyword occurs in a matching record, and it never raises (a missing or  *)
(* unreadable corpus gives absent).                                        *)
(***************************************************************************)
C20_StaticScan ==
    scan_result # NoResult =>
        LET target == StrLower(Strip(target_city))
            text(i) == StrLower(news_file.rows[i].headline \o <<" ">>
                                \o news_file.rows[i].short_description)
            hits == {h \in (1 .. Len(news_file.rows)) \X (1 .. Len(RISK_WEIGHTS)) :
                        /\ StrContains(text(h[1]), target)
                        /\ StrContains(text(h[1]), RISK_WEIGHTS[h[2]].keyword)}
        IN /\ scan_result.kind = "ret"
           /\ IF news_file.state # "ok" \/ hits = {}
              THEN scan_result.val = <<>>
              ELSE /\ Len(scan_result.val) = 1
                   /\ scan_result.val[1].city = target
                   /\ \A h \in hits :
                         RISK_WEIGHTS[h[2]].weight <= scan_result.val[1].multiplier
                   /\ \E h \in hits :
                         /\ RISK_WEIGHTS[h[2]].weight = scan_result.val[1].multiplier
                         /\ scan_result.val[1].reason =
                               StrUpper(RISK_WEIGHTS[h[2]].keyword) \o TxtReportedIn \o target

\* " Boston " was found in two records; the second one's "closed" outweighs the
\* first one's "strike" and "delay".
C20_Witness ==
    /\ scan_result # NoResult
    /\ target_city = TxtBostonPadded
    /\ news_file.state = "ok" /\ news_file.rows = <<NewsPortStrike, NewsFireClosed>>
    /\ scan_result.val # <<>>
    /\ scan_result.val[1].multiplier = 20

(***************************************************************************)
(* C21: every non-absent signal returned by _resolve_risk_data carries a   *)
(* source field naming the path that produced it: "gdelt" for a signal     *)
(* obtained from the live feed and "static" for a signal of the static     *)
(* monitor, never the other way round; solve_guardian_plan's risk string   *)
(* reports that source (upper-cased).                                      *)
(***************************************************************************)
C21_SourceTagged ==
    (smode = "guardian" /\ spc \in {"resolved", "costed", "done"} /\ risk_data # <<>>) =>
        LET from_live == (use_live_gdelt \/ env_live) /\ live_outcome.kind = "signal"
        IN /\ "source" \in DOMAIN risk_data[1]
           /\ from_live => risk_data[1].source = <<"g","d","e","l","t">>
           /\ ~from_live => risk_data[1].source = <<"s","t","a","t","i","c">>
           /\ spc \in {"costed", "done"} =>
                 /\ risk_info_str[1] = "ALERT"
                 /\ risk_info_str[4] = IF from_live THEN <<"G","D","E","L","T">>
                                       ELSE <<"S","T","A","T","I","C">>

\* The live lookup was enabled and found nothing; the static monitor's signal was
\* returned and the risk string names STATIC.
C21_Witness ==
    /\ smode = "guardian" /\ spc = "done"
    /\ use_live_gdelt /\ live_outcome.kind = "none"
    /\ risk_data # <<>>
    /\ risk_info_str[4] = <<"S","T","A","T","I","C">>

(***************************************************************************)
(* C22: two risk resolutions made through _resolve_risk_data with the live *)
(* path enabled, the second within the TTL window of the first, issue at   *)
(* most one manifest+snapshot fetch in total: once the first has fetched   *)
(* and returned, the second makes no request, also when the caller passes  *)
(* no gdelt_service.                                                       *)
(***************************************************************************)
C22_OneFetchPerWindow ==
    (/\ city_risk[1].stage = "done" /\ city_risk[1].result.kind = "ret"
     /\ city_risk[2].stage # "none"
     /\ gcall[2].callNow < gcall[1].callNow + cache_ttl_seconds) =>
        /\ gcall[2].logM = <<>>
        /\ gcall[2].logZ = <<>>

(***************************************************************************)
(* C23: when no risk signal is resolved for the destination,               *)
(* solve_guardian_plan routes the shipment on the primary route in both    *)
(* plans: the mitigation plan equals the initial plan, for every           *)
(* assignment of base costs to the city's routes.                          *)
(***************************************************************************)
C23_NoRerouteWithoutRisk ==
    (smode = "guardian" /\ spc = "done" /\ risk_data = <<>>) =>
        /\ initial_plan[primary_route] = demand_qty
        /\ mitigation_plan[primary_route] = demand_qty
        /\ mitigation_plan = initial_plan


(***************************************************************************)
(* C25: a missing or malformed cost dataset never makes a plan computation *)
(* fail: solve_mitigation_plan computes its costs from the backup table    *)
(* and solve_guardian_plan proceeds as without the file.                   *)
(***************************************************************************)
C25_DatasetOptional ==
    /\ spc # "raised"
    /\ (smode = "legacy" /\ spc \in {"costed", "done"}) => base_cost_map = LegacyBaseCostMap
    /\ (smode = "guardian" /\ spc \in {"costed", "done"}) =>
          base_cost_map = [r \in SeqToSet(city_routes) |-> route_cost[r]]

C27_IndianGrouping ==
    formatted # <<>> =>
        LET n == cost_usd * usd_to_inr
            body == Tail(formatted[1])
            digits == SelectSeq(body, LAMBDA ch : ch # ",")
            L == Len(digits)
            DigitValue(ch) == (CHOOSE d \in 1 .. 10 : DigitChars[d] = ch) - 1
            Value[i \in 0 .. L] ==
                IF i = 0 THEN 0 ELSE 10 * Value[i - 1] + DigitValue(digits[i])
        IN /\ formatted[1][1] = "RUPEE"
           /\ \A i \in 1 .. L : digits[i] \in SeqToSet(DigitChars)
           /\ L > 1 => digits[1] # "0"
           /\ Value[L] = n
           /\ Len(body) = L + (IF L <= 3 THEN 0 ELSE (L - 2) \div 2)
           /\ \A i \in 1 .. Len(body) :
                  (body[Len(body) - i + 1] = ",") <=> (i >= 4 /\ (i - 4) % 3 = 0)
           /\ body[1] # ","

C27_Witness ==
    /\ cost_usd = 123456 /\ usd_to_inr = 1
    /\ formatted = << <<"RUPEE", "1", ",", "2", "3", ",", "4", "5", "6">> >>

(***************************************************************************)
(* C28: whenever get_disruptions_from_gdelt answers from the cache, the    *)
(* list it returns is filter_disruption_themes of the frame cached at that *)
(* moment, also after direct fetch_latest_gkg calls.                       *)
(***************************************************************************)
C28_CacheAnswersCurrentFrame ==
    \A t \in GdThreads :
        gpc[t] = "gd_hit" =>
            /\ cached_gkg_df # 0
            /\ cached_disruptions[1] = filter_disruption_themes(Feed[cached_gkg_df])

(***************************************************************************)
(* C29: when a refresh fails (a request exhausts its retries, the manifest *)
(* names no GKG zip, the archive is empty) the call raises, and            *)
(* last_fetch_time, the cached frame, the cached disruptions and the       *)
(* expiry are what they were when the call began; a call returns data      *)
(* without a completed download only from a cache still valid at its       *)
(* start.                                                                  *)
(***************************************************************************)
C29_FailedRefreshKeepsCache ==
    \A t \in GdThreads :
        gpc[t] = "idle" =>
            /\ (gresult[t].kind \in {"ret", "raise"}
                 /\ ~(\E i \in 1 .. Len(gcall[t].logZ) : gcall[t].logZ[i] = "ok")) =>
                  \/ /\ gresult[t].kind = "raise"
                     /\ gresult[t].stage \in {"manifest", "zip", "nourl"}
                  \/ /\ gresult[t].kind = "ret"
                     /\ ~gcall[t].force
                     /\ gcall[t].callExp # -1 /\ gcall[t].callNow < gcall[t].callExp
            /\ gresult[t].kind = "raise" =>
                  /\ gresult[t].val = <<>>
                  /\ last_fetch_time = gcall[t].callFetch
                  /\ cached_gkg_df = gcall[t].callDf
                  /\ cached_disruptions = gcall[t].callDis
                  /\ cache_expires_at = gcall[t].callExp

C29_Witness ==
    /\ gpc[1] = "idle" /\ gresult[1].kind = "raise" /\ gresult[1].stage = "zip"
    /\ cached_disruptions # <<>>
    /\ gcall[1].callExp # -1 /\ gcall[1].callNow >= gcall[1].callExp

(***************************************************************************)
(* C30: the primary route of rule_based_route_selection is the first route *)
(* of minimum cost_per_unit among the options, whatever budget is passed:  *)
(* no other budget, nor omitting it, selects another primary; only the     *)
(* backup entry and the analysis differ.                                   *)
(***************************************************************************)
C30_PrimaryIgnoresBudget ==
    selection # <<>> =>
        LET primary == selection[1].selected_routes[1]
            cheapest == CHOOSE i \in 1 .. Len(route_options) :
                           /\ \A j \in 1 .. Len(route_options) :
                                  route_options[i].cost_per_unit <= route_options[j].cost_per_unit
                           /\ \A j \in 1 .. i - 1 :
                                  route_options[j].cost_per_unit > route_options[i].cost_per_unit
        IN /\ primary.role = "primary"
           /\ primary.route_id = route_options[cheapest].route_id
           /\ primary.quantity = quantity
           /\ selection[1].total_cost = route_options[cheapest].cost_per_unit * quantity
           /\ \A b \in {0, 1, 32000, 100000, 400000, budget + 1} :
                  rule_based_route_selection(route_options, quantity, b).selected_routes[1]
                      = primary

\* The budget admits the cheapest route only: the backup entry is gone, the primary stays.
C30_Witness ==
    /\ selection # <<>>
    /\ budget = 32000 /\ quantity = 1
    /\ Len(route_options) = 3
    /\ Len(selection[1].selected_routes) = 1
    /\ rule_based_route_selection(route_options, quantity, 0).selected_routes
           # selection[1].selected_routes

====
